---- MODULE Spec2Model ----
(***************************************************************************)
(* Model of the assist Frappe application (samletnorge/assist).            *)
(*                                                                         *)
(* Each part has its own specification:                                    *)
(*   SpecUpload     - the Stock Camera Upload document and its batch       *)
(*                    pipeline (stock_camera_upload.py)                    *)
(*   SpecHustle     - Saved Marketplace Search records and the two polling *)
(*                    routines (marketplace_hustle.py, tasks.py, api.py)   *)
(*   SpecMatch      - match_with_material_requests / match_with_tasks and  *)
(*                    create_match_notification (marketplace_hustle.py)    *)
(*   SpecSearch     - process_single_search (marketplace_hustle.py)        *)
(*   SpecScheduler  - the scheduler events of hooks.py                     *)
(*   SpecListing, SpecRoute, SpecSubmit - Marketplace Listing              *)
(*   SpecProgram    - Norwegian Support Program                            *)
(*   SpecGarden, SpecSchedule - Garden Planting Schedule                   *)
(*   SpecTool       - Assist Tool Draft and the MCP server's tool loader   *)
(*   SpecSuccession - calculate_succession_planting (api.py)               *)
(*                                                                         *)
(* Calls into the framework that read or write documents (save, insert,    *)
(* get_doc, db.set_value, db.sql) either succeed or raise; the outcome is  *)
(* an input of the action.  frappe.db.commit, frappe.log_error and the     *)
(* logger are taken not to raise.                                          *)
(***************************************************************************)
EXTENDS Integers, Sequences, FiniteSets, TLC

VARIABLES
    \* ---- Stock Camera Upload ----
    doc,            \* the Stock Camera Upload document
    pc,             \* position of the handler: "idle", "start", "loop", "done"
    idx,            \* loop index of process_all_images (1-based)
    success_count,  \* local of process_all_images
    failed_count,   \* local of process_all_images
    caller,         \* who invoked process_all_images
    result,         \* what process_all_images returned or raised
    response,       \* what process_batch_upload / quick_batch_upload returned
    itemCount,      \* number of Item documents inserted
    stockEntryCount,\* number of Stock Entry documents submitted
    runs,           \* number of handler invocations so far
    lastOp,         \* the last document operation performed
    \* ---- Material Requests and Tasks (read by the matching functions) ----
    mrs,            \* Material Request name -> [docstatus, status]
    mr_items,       \* rows of Material Request Item
    tasks,          \* Task documents; the name of a task is its index
    matchCall,      \* the last call of a matching function and its result
    comments,       \* Comment documents created by the last handler
    realtime,       \* publish_realtime events sent by the last handler
    \* ---- Saved Marketplace Search ----
    searches,       \* the stored searches; the name of a search is its index
    clock,          \* the current time (frappe.utils.now)
    hrun,           \* the routine or request that ran last, its position,
                    \* the searches it still has to go over and its time
    hresult,        \* the results dictionary of check_marketplace_searches
    attempted,      \* the searches the routine has called its check on
    hooks,          \* the scheduler_events the site has loaded from hooks.py
    listings,       \* the stored Marketplace Listing documents
    lop,            \* the last listing operation and what it returned
    programs,       \* the stored Norwegian Support Program documents
    pop,            \* the last support program operation and its outcome
    garden,         \* a Garden Planting Schedule and the reminders it returned
    tools,          \* the stored Assist Tool Draft documents
    mcp,            \* the tool functions registered with the MCP server
    top,            \* the last tool operation and what it returned
    single,         \* a call of process_single_search and what it returned
    succession,     \* a call of calculate_succession_planting and its result
    planting        \* the planting_items of a stored Garden Planting Schedule

uploadVars == <<doc, pc, idx, success_count, failed_count, caller, result,
                response, itemCount, stockEntryCount, runs, lastOp>>

dbVars == <<mrs, mr_items, tasks>>

matchVars == <<matchCall, comments, realtime>>

hustleVars == <<searches, clock, hrun, hresult, attempted>>
formVars == <<hooks, listings, lop, programs, pop, garden>>
toolVars == <<tools, mcp, top>>
callVars == <<single, succession, planting>>
restVars == <<toolVars, callVars>>
siteVars == <<formVars, restVars>>

vars == <<doc, pc, idx, success_count, failed_count, caller, result,
          response, itemCount, stockEntryCount, runs, lastOp,
          mrs, mr_items, tasks, matchCall, comments, realtime,
          searches, clock, hrun, hresult, attempted, hooks,
          listings, lop, programs, pop, garden, tools, mcp, top,
          single, succession, planting>>

----------------------------------------------------------------------------
(* Bounds *)

MaxImages == 2
MaxRuns == 1
MaxItemRows == 2
MaxTasks == 2
MaxSearches == 3
MaxClock == 4
MaxListings == 2
MaxStops == 3
MaxPrograms == 2
MaxItems == 2
MaxRemind == 2

----------------------------------------------------------------------------
(* Stock Camera Upload: data *)

\* What an image row's image_file can be: something _get_image_data can load
\* (inline base64 or a readable file), or a value it cannot load (unset, or
\* a URL that is neither a File document with content nor a readable file).
ImageFiles == {"data", "missing"}

\* item_code of a row: None, or a hash made by frappe.generate_hash.
NoCode == 0
Hash == 1

NoError == ""
ErrNoImages == "No images uploaded to process"
ErrLoad == "Could not load image data"
ErrInsert == "insert raised"
ErrSave == "save raised"
ErrNotList == "Images must be a list"
ErrGetDoc == "get_doc raised"

NewRow(f) ==
    [image_file |-> f, status |-> "Pending", item_code |-> NoCode,
     error_message |-> NoError]

NewDoc ==
    [status |-> "Draft", images |-> <<>>, total_images |-> 0,
     total_items_created |-> 0, failed_count |-> 0, items_created |-> <<>>,
     docstatus |-> 0, inserted |-> FALSE, warehouse |-> TRUE]

NoResult ==
    [kind |-> "none", success |-> FALSE, error |-> NoError,
     total_images |-> 0, items_created |-> 0, failed |-> 0]

Returned(n, s, f) ==
    [kind |-> "return", success |-> TRUE, error |-> NoError,
     total_images |-> n, items_created |-> s, failed |-> f]

Raised(err) ==
    [kind |-> "raise", success |-> FALSE, error |-> err,
     total_images |-> 0, items_created |-> 0, failed |-> 0]

ErrorResponse(err) ==
    [kind |-> "return", success |-> FALSE, error |-> err,
     total_images |-> 0, items_created |-> 0, failed |-> 0]

----------------------------------------------------------------------------
(* Stock Camera Upload: document methods *)

\* validate without the recount of the images table.
validate_norecount(d) == d

validate(d) == [d EXCEPT !.total_images = Len(d.images)]

\* before_submit that leaves the status alone.
before_submit_noop(d) == d

before_submit(d) ==
    IF d.status = "Draft" THEN [d EXCEPT !.status = "Processing"] ELSE d

\* _get_image_data: the data, or None ("none") when the file is unset or
\* cannot be read.
get_image_data(image_file) ==
    IF image_file = "data" THEN "data" ELSE "none"

\* _process_single_image.  procOk, fileOk: whether image processing and the
\* File attachment succeed (both are caught and logged, the item is created
\* either way).  itemOk, seOk: whether item.insert() and the Stock Entry
\* insert/submit succeed.
process_single_image(d, row, procOk, fileOk, itemOk, seOk) ==
    IF get_image_data(row.image_file) = "none"
    THEN [success |-> FALSE, item_code |-> NoCode, error |-> ErrLoad,
          items |-> 0, entries |-> 0]
    ELSE IF ~itemOk
    THEN [success |-> FALSE, item_code |-> NoCode, error |-> ErrInsert,
          items |-> 0, entries |-> 0]
    ELSE IF d.warehouse /\ ~seOk
    THEN [success |-> FALSE, item_code |-> NoCode, error |-> ErrInsert,
          items |-> 1, entries |-> 0]
    ELSE [success |-> TRUE, item_code |-> Hash, error |-> NoError,
          items |-> 1, entries |-> IF d.warehouse THEN 1 ELSE 0]

\* The handler without the row's status update.
image_except_nostatus(d, i, sc, fc, items, entries, save3Ok) ==
    [doc |-> [d EXCEPT !.images[i].error_message = ErrSave],
     sc |-> sc, fc |-> fc + 1, items |-> items, entries |-> entries,
     raised |-> ~save3Ok]

\* The handler of the per-image try block (lines 80-86): the row is marked
\* Failed and counted as failed; the handler's own save may raise.
image_except(d, i, sc, fc, items, entries, save3Ok) ==
    [doc |-> [d EXCEPT !.images[i].status = "Failed",
                       !.images[i].error_message = ErrSave],
     sc |-> sc, fc |-> fc + 1, items |-> items, entries |-> entries,
     raised |-> ~save3Ok]

\* One iteration of the loop of process_all_images (lines 46-86) on row i.
loop_body(d, i, sc, fc, o) ==
    LET d1 == [d EXCEPT !.images[i].status = "Processing"]
        r == process_single_image(d1, d1.images[i],
                                  o.procOk, o.fileOk, o.itemOk, o.seOk)
        d2 == IF r.success
              THEN [d1 EXCEPT !.images[i].status = "Completed",
                              !.images[i].item_code = r.item_code,
                              !.items_created = Append(@, r.item_code)]
              ELSE [d1 EXCEPT !.images[i].status = "Failed",
                              !.images[i].error_message = r.error]
        sc2 == IF r.success THEN sc + 1 ELSE sc
        fc2 == IF r.success THEN fc ELSE fc + 1
    IN  IF ~o.save1Ok
        THEN image_except(d1, i, sc, fc, 0, 0, o.save3Ok)
        ELSE IF ~o.save2Ok
        THEN image_except(d2, i, sc2, fc2, r.items, r.entries, o.save3Ok)
        ELSE [doc |-> validate(d2), sc |-> sc2, fc |-> fc2,
              items |-> r.items, entries |-> r.entries, raised |-> FALSE]

\* The final status with the last two branches exchanged.
final_status_swapped(sc, fc) ==
    IF fc = 0 THEN "Completed"
    ELSE IF sc = 0 THEN "Partially Completed"
    ELSE "Failed"

\* The final status (lines 94-100).
final_status(sc, fc) ==
    IF fc = 0 THEN "Completed"
    ELSE IF sc = 0 THEN "Failed"
    ELSE "Partially Completed"

\* The outcomes of the calls of one iteration.  A call that is not reached
\* on a path has no outcome, so it is enumerated as TRUE there.
Outcomes ==
    {o \in [procOk : BOOLEAN, fileOk : BOOLEAN, itemOk : BOOLEAN,
            seOk : BOOLEAN, save1Ok : BOOLEAN, save2Ok : BOOLEAN,
            save3Ok : BOOLEAN] :
        /\ ~o.save1Ok => o.procOk /\ o.fileOk /\ o.itemOk /\ o.seOk /\ o.save2Ok
        /\ ~o.itemOk => o.seOk
        /\ (o.save1Ok /\ o.save2Ok) => o.save3Ok
        /\ (~o.procOk \/ ~o.fileOk) => o.itemOk /\ o.seOk /\ o.save2Ok}

Wrappers == {"process_batch_upload", "quick_batch_upload"}

\* A caller that never catches.
caller_response_uncaught(c, err) == Raised(err)

\* What the caller makes of an exception raised by process_all_images:
\* on_submit lets it propagate, the two whitelisted wrappers catch it.
caller_response(c, err) ==
    IF c \in Wrappers THEN ErrorResponse(err) ELSE Raised(err)

----------------------------------------------------------------------------
(* Stock Camera Upload: actions *)

Idle == pc \in {"idle", "done"}

InitUpload ==
    /\ doc = NewDoc
    /\ pc = "idle"
    /\ idx = 0
    /\ success_count = 0
    /\ failed_count = 0
    /\ caller = "none"
    /\ result = NoResult
    /\ response = NoResult
    /\ itemCount = 0
    /\ stockEntryCount = 0
    /\ runs = 0
    /\ lastOp = "new"

\* The part of the state a specification leaves alone.
\* scheduler_events of hooks.py.
scheduler_events ==
    [hourly |-> <<"assist.tasks.check_bruktdel_searches">>,
     daily |-> <<"assist.tasks.daily_marketplace_summary">>]

\* No Assist Tool Draft is stored and the MCP server has not been started.
InitRest ==
    /\ tools = <<>>
    /\ mcp = [loaded |-> FALSE, registered |-> {}]
    /\ top = [op |-> "none"]
    /\ single = [called |-> FALSE]
    /\ succession = [called |-> FALSE]
    /\ planting = [stored |-> FALSE, op |-> "none"]

\* The rest of the site as it is when the application has been installed.
InitSite ==
    /\ InitRest
    /\ hooks = scheduler_events
    /\ listings = <<>>
    /\ lop = [op |-> "none"]
    /\ programs = <<>>
    /\ pop = [op |-> "none"]
    /\ garden = [called |-> FALSE]

NoDatabase ==
    /\ mrs = [n \in {} |-> 0]
    /\ mr_items = <<>>
    /\ tasks = <<>>

NoMatching ==
    /\ matchCall = [fn |-> "none", query |-> <<>>, queryOk |-> TRUE,
                    ret |-> FALSE]
    /\ comments = <<>>
    /\ realtime = <<>>

NoSearches ==
    /\ searches = <<>>
    /\ clock = 0
    /\ hresult = [kind |-> "none", listed |-> FALSE, success |-> FALSE,
                  searches_processed |-> 0, items_found |-> 0,
                  matches_created |-> 0, errors |-> <<>>]
    /\ attempted = <<>>
    /\ hrun = [routine |-> "none", pc |-> "idle", queue |-> <<>>, now |-> 0]

\* upload.append("images", {...}) on a document that is not submitted.
AppendImage ==
    /\ Idle
    /\ doc.docstatus = 0
    /\ Len(doc.images) < MaxImages
    /\ \E f \in ImageFiles :
          doc' = [doc EXCEPT !.images = Append(@, NewRow(f))]
    /\ pc' = "idle"
    /\ result' = NoResult
    /\ response' = NoResult
    /\ lastOp' = "append"
    /\ UNCHANGED <<idx, success_count, failed_count, caller, itemCount,
                   stockEntryCount, runs>>
    /\ UNCHANGED <<siteVars, dbVars, matchVars, hustleVars>>

\* upload.insert(): validate, then the database write (which may raise).
Insert ==
    /\ Idle
    /\ ~doc.inserted
    /\ \E ok \in BOOLEAN :
          IF ok
          THEN /\ doc' = [validate(doc) EXCEPT !.inserted = TRUE]
               /\ lastOp' = "insert"
          ELSE /\ doc' \in {doc, validate(doc)}
               /\ lastOp' = "save_failed"
    /\ pc' = "idle"
    /\ result' = NoResult
    /\ response' = NoResult
    /\ UNCHANGED <<idx, success_count, failed_count, caller, itemCount,
                   stockEntryCount, runs>>
    /\ UNCHANGED <<siteVars, dbVars, matchVars, hustleVars>>

\* upload.save() on a stored draft.
Save ==
    /\ Idle
    /\ doc.inserted
    /\ doc.docstatus = 0
    /\ \E ok \in BOOLEAN :
          IF ok
          THEN /\ doc' = validate(doc)
               /\ lastOp' = "save"
          ELSE /\ doc' \in {doc, validate(doc)}
               /\ lastOp' = "save_failed"
    /\ pc' = "idle"
    /\ result' = NoResult
    /\ response' = NoResult
    /\ UNCHANGED <<idx, success_count, failed_count, caller, itemCount,
                   stockEntryCount, runs>>
    /\ UNCHANGED <<siteVars, dbVars, matchVars, hustleVars>>

\* upload.submit(): validate, before_submit, the write with docstatus 1, and
\* then on_submit, which calls process_all_images.
Submit ==
    /\ Idle
    /\ doc.inserted
    /\ doc.docstatus = 0
    /\ runs < MaxRuns
    /\ doc' = [before_submit(validate(doc)) EXCEPT !.docstatus = 1]
    /\ pc' = "start"
    /\ caller' = "submit"
    /\ result' = NoResult
    /\ response' = NoResult
    /\ runs' = runs + 1
    /\ lastOp' = "submit"
    /\ UNCHANGED <<idx, success_count, failed_count, itemCount,
                   stockEntryCount>>
    /\ UNCHANGED <<siteVars, dbVars, matchVars, hustleVars>>

\* process_batch_upload(upload_name): loads the stored document and calls
\* process_all_images; any exception becomes success = False.
ProcessBatchUpload ==
    /\ Idle
    /\ doc.inserted
    /\ lastOp \notin {"append", "save_failed"}
    /\ runs < MaxRuns
    /\ \E getOk \in BOOLEAN :
          IF getOk
          THEN /\ pc' = "start"
               /\ response' = NoResult
          ELSE /\ pc' = "done"
               /\ response' = ErrorResponse(ErrGetDoc)
    /\ caller' = "process_batch_upload"
    /\ result' = NoResult
    /\ runs' = runs + 1
    /\ lastOp' = "process"
    /\ UNCHANGED <<doc, idx, success_count, failed_count, itemCount,
                   stockEntryCount>>
    /\ UNCHANGED <<siteVars, dbVars, matchVars, hustleVars>>

\* quick_batch_upload(images, ...): builds a new document with one row per
\* image, inserts it and calls process_all_images.  isList: the argument is
\* a list; filesOk: every File insert succeeds; insertOk: the upload's
\* insert succeeds.
QuickBatchUpload ==
    /\ Idle
    /\ doc = NewDoc
    /\ runs < MaxRuns
    /\ \E isList \in BOOLEAN, filesOk \in BOOLEAN, insertOk \in BOOLEAN,
          n \in 0..MaxImages :
       \E files \in [1..n -> ImageFiles] :
          LET built == [NewDoc EXCEPT
                          !.images = [i \in 1..n |-> NewRow(files[i])]]
          IN  IF ~isList
              THEN /\ doc' = doc
                   /\ pc' = "done"
                   /\ response' = ErrorResponse(ErrNotList)
              ELSE IF ~filesOk \/ ~insertOk
              THEN /\ doc' = doc
                   /\ pc' = "done"
                   /\ response' = ErrorResponse(ErrInsert)
              ELSE /\ doc' = [validate(built) EXCEPT !.inserted = TRUE]
                   /\ pc' = "start"
                   /\ response' = NoResult
    /\ caller' = "quick_batch_upload"
    /\ result' = NoResult
    /\ runs' = runs + 1
    /\ lastOp' = "process"
    /\ UNCHANGED <<idx, success_count, failed_count, itemCount,
                   stockEntryCount>>
    /\ UNCHANGED <<siteVars, dbVars, matchVars, hustleVars>>

\* process_all_images, lines 35-44: the empty check, status = Processing,
\* the first save, the counters.
ProcessStart ==
    /\ pc = "start"
    /\ \E saveOk \in BOOLEAN :
          IF Len(doc.images) = 0
          THEN /\ doc' = doc
               /\ pc' = "done"
               /\ result' = Raised(ErrNoImages)
               /\ response' = caller_response(caller, ErrNoImages)
               /\ idx' = 0
          ELSE IF ~saveOk
          THEN /\ doc' = [doc EXCEPT !.status = "Processing"]
               /\ pc' = "done"
               /\ result' = Raised(ErrSave)
               /\ response' = caller_response(caller, ErrSave)
               /\ idx' = 0
          ELSE /\ doc' = validate([doc EXCEPT !.status = "Processing"])
               /\ pc' = "loop"
               /\ result' = result
               /\ response' = response
               /\ idx' = 1
    /\ success_count' = 0
    /\ failed_count' = 0
    /\ UNCHANGED <<caller, itemCount, stockEntryCount, runs, lastOp>>
    /\ UNCHANGED <<siteVars, dbVars, matchVars, hustleVars>>

\* process_all_images, lines 46-86: one iteration of the loop.
ProcessImage ==
    /\ pc = "loop"
    /\ idx <= Len(doc.images)
    /\ \E o \in Outcomes :
          LET b == loop_body(doc, idx, success_count, failed_count, o)
          IN  /\ doc' = b.doc
              /\ success_count' = b.sc
              /\ failed_count' = b.fc
              /\ itemCount' = itemCount + b.items
              /\ stockEntryCount' = stockEntryCount + b.entries
              /\ IF b.raised
                 THEN /\ pc' = "done"
                      /\ result' = Raised(ErrSave)
                      /\ response' = caller_response(caller, ErrSave)
                      /\ idx' = idx
                 ELSE /\ pc' = "loop"
                      /\ result' = result
                      /\ response' = response
                      /\ idx' = idx + 1
    /\ UNCHANGED <<caller, runs, lastOp>>
    /\ UNCHANGED <<siteVars, dbVars, matchVars, hustleVars>>

\* process_all_images, lines 88-111: the summary, the final status, the
\* last save and the returned dictionary.
ProcessFinish ==
    /\ pc = "loop"
    /\ idx > Len(doc.images)
    /\ \E saveOk \in BOOLEAN :
          LET d1 == [doc EXCEPT
                       !.total_items_created = success_count,
                       !.failed_count = failed_count,
                       !.status = final_status(success_count, failed_count)]
              ret == Returned(Len(doc.images), success_count, failed_count)
          IN  IF saveOk
              THEN /\ doc' = validate(d1)
                   /\ result' = ret
                   /\ response' = IF caller \in Wrappers THEN ret
                                  ELSE NoResult
              ELSE /\ doc' = d1
                   /\ result' = Raised(ErrSave)
                   /\ response' = caller_response(caller, ErrSave)
    /\ pc' = "done"
    /\ UNCHANGED <<idx, success_count, failed_count, caller, itemCount,
                   stockEntryCount, runs, lastOp>>
    /\ UNCHANGED <<siteVars, dbVars, matchVars, hustleVars>>

NextUpload ==
    \/ AppendImage
    \/ Insert
    \/ Save
    \/ Submit
    \/ ProcessBatchUpload
    \/ QuickBatchUpload
    \/ ProcessStart
    \/ ProcessImage
    \/ ProcessFinish

InitSpecUpload ==
    InitUpload /\ NoDatabase /\ NoMatching /\ NoSearches /\ InitSite

SpecUpload == InitSpecUpload /\ [][NextUpload]_vars

----------------------------------------------------------------------------
(* Stock Camera Upload: properties *)

RowFinal(row) ==
    \/ row.status = "Completed" /\ row.item_code # NoCode
    \/ row.status = "Failed" /\ row.error_message # NoError

Rows == {doc.images[i] : i \in 1..Len(doc.images)}

ProcessReturned == pc = "done" /\ result.kind = "return"

FinalStatuses == {"Completed", "Failed", "Partially Completed"}

C2_CountedOnce ==
    ProcessReturned =>
        /\ doc.total_items_created + doc.failed_count = Len(doc.images)
        /\ result.items_created + result.failed = result.total_images

\* C3 as stated: a failure on one row never stops the batch, so whenever
\* process_all_images ends after entering its loop, the loop has gone over
\* every row and every row is Completed (with item_code) or Failed (with
\* error_message).
C3_NeverStops ==
    (pc = "done" /\ idx >= 1) =>
        /\ idx > Len(doc.images)
        /\ \A r \in Rows : RowFinal(r)

\* C3 as amended: rows are processed one at a time in list order (a step of
\* the loop changes row idx only and moves to idx + 1); a failed result, or
\* a save that raises while the handler's save succeeds, marks the row
\* Failed and goes on; the batch stops inside the loop only when the save of
\* the exception handler raises, and process_all_images then raises with
\* row idx Failed; when it returns every row is Completed (with item_code)
\* or Failed (with error_message).
C3_Amended ==
    [][ /\ (pc = "loop" /\ idx <= Len(doc.images)) =>
            /\ \A j \in 1..Len(doc.images) :
                   j # idx => doc'.images[j] = doc.images[j]
            /\ Len(doc'.images) = Len(doc.images)
            /\ RowFinal(doc'.images[idx])
            /\ \/ pc' = "loop" /\ idx' = idx + 1
               \/ /\ pc' = "done" /\ idx' = idx
                  /\ result'.kind = "raise"
                  /\ result'.error = ErrSave
                  /\ doc'.images[idx].status = "Failed"
                  /\ doc'.images[idx].error_message = ErrSave
        /\ pc' = "loop" =>
               \A j \in 1..(idx' - 1) : RowFinal(doc'.images[j])
        /\ (pc' = "done" /\ result'.kind = "return") =>
               \A j \in 1..Len(doc'.images) : RowFinal(doc'.images[j])
      ]_vars

C3_Witness ==
    /\ ProcessReturned
    /\ Len(doc.images) >= 2
    /\ doc.images[1].status = "Failed"
    /\ doc.images[2].status = "Completed"

\* C4: process_all_images on an upload without image rows raises 'No images
\* uploaded to process', leaves the document (its status included)
\* unchanged and creates no Item and no Stock Entry; process_batch_upload
\* and quick_batch_upload return success = False instead of raising.
C4_NoImages ==
    [][ (pc = "start" /\ Len(doc.images) = 0) =>
            /\ doc' = doc
            /\ itemCount' = itemCount
            /\ stockEntryCount' = stockEntryCount
            /\ pc' = "done"
            /\ result' = Raised(ErrNoImages)
            /\ caller \in Wrappers =>
                   /\ response'.kind = "return"
                   /\ ~response'.success
                   /\ response'.error = ErrNoImages
      ]_vars

C4_Witness ==
    /\ pc = "done"
    /\ caller = "quick_batch_upload"
    /\ result = Raised(ErrNoImages)
    /\ response.kind = "return"
    /\ ~response.success
    /\ doc.inserted
    /\ doc.status = "Draft"

\* C5: after every completed insert or save, total_images equals the number
\* of rows of the images table.
C5_TotalImages ==
    lastOp \in {"insert", "save", "submit"} =>
        doc.total_images = Len(doc.images)

C5_Witness ==
    /\ lastOp = "save"
    /\ Len(doc.images) = MaxImages
    /\ doc.total_images = MaxImages

\* C6 as stated: an inserted upload is Draft until it is submitted or
\* processed; a submit of a Draft upload sets Processing before the images
\* are processed; processing on submit ends in Completed, Failed or
\* Partially Completed; the status never goes back to Draft.
C6_AsStated ==
    [][ /\ runs' = 0 => doc'.status = "Draft"
        /\ (Idle /\ pc' = "start" /\ caller' = "submit"
              /\ doc.status = "Draft") => doc'.status = "Processing"
        /\ pc' = "loop" => doc'.status = "Processing"
        /\ (pc' = "done" /\ caller' = "submit") =>
               doc'.status \in FinalStatuses
        /\ doc.status # "Draft" => doc'.status # "Draft"
      ]_vars

\* C6 as amended: as stated, except that processing on submit ends in
\* Completed, Failed or Partially Completed when process_all_images
\* returns; when it raises (no image rows, or a save raising outside the
\* per-row try or inside its handler) the status stays Processing, unless
\* it was the last save that raised, after the loop: the document object
\* then carries the final status, which was not saved.
C6_Amended ==
    [][ /\ runs' = 0 => doc'.status = "Draft"
        /\ (Idle /\ pc' = "start" /\ caller' = "submit"
              /\ doc.status = "Draft") => doc'.status = "Processing"
        /\ pc' = "loop" => doc'.status = "Processing"
        /\ (pc' = "done" /\ caller' = "submit") =>
               IF result'.kind = "return"
               THEN doc'.status \in FinalStatuses
               ELSE /\ result'.kind = "raise"
                    /\ \/ doc'.status = "Processing"
                       \/ /\ idx' > Len(doc'.images)
                          /\ doc'.status \in FinalStatuses
        /\ doc.status # "Draft" => doc'.status # "Draft"
      ]_vars

C6_Witness ==
    /\ pc = "done"
    /\ caller = "submit"
    /\ result.kind = "return"
    /\ doc.docstatus = 1
    /\ doc.status \in FinalStatuses

----------------------------------------------------------------------------
(* Matching marketplace items with Material Requests and Tasks *)

\* Text values are sequences of characters; Null is SQL NULL.
Null == <<"NULL">>

Queries == {<<"a">>, <<"b">>, <<"b", "a">>}

\* text LIKE '%q%': q occurs in text; NULL matches nothing.
Contains(text, q) ==
    \E k \in 0..(Len(text) - Len(q)) : SubSeq(text, k + 1, k + Len(q)) = q

Like(text, q) == text # Null /\ Contains(text, q)

MRNames == {"MR1", "MR2"}

MRStates ==
    {[docstatus |-> 1, status |-> "Pending"],
     [docstatus |-> 1, status |-> "Partially Ordered"],
     [docstatus |-> 1, status |-> "Ordered"],
     [docstatus |-> 0, status |-> "Draft"]}

ItemRows ==
    [parent : MRNames, item_name : {<<"a">>, <<"b">>},
     description : {Null, <<"b", "a">>}, item_code : {<<"a", "b">>}]

TaskRows ==
    [status : {"Open", "Working", "Completed"},
     subject : {<<"a">>, <<"b">>}, description : {Null, <<"b", "a">>}]

SeqsUpTo(S, n) == UNION {[1..k -> S] : k \in 0..n}

\* The marketplace items the matching functions are called with.
SampleItem == [title |-> "Paller", marketplace |-> "FINN.no"]

\* The rows the query of match_with_material_requests selects (lines
\* 168-190): one row for every item row of an open request that matches.
material_request_rows(q) ==
    SelectSeq(mr_items,
              LAMBDA r :
                  /\ mrs[r.parent].docstatus = 1
                  /\ mrs[r.parent].status \in {"Pending", "Partially Ordered"}
                  /\ \/ Like(r.item_name, q)
                     \/ Like(r.description, q)
                     \/ Like(r.item_code, q))

\* The names of the tasks the query of match_with_tasks selects (lines
\* 224-240), in table order.
RECURSIVE task_rows_from(_, _)
task_rows_from(i, q) ==
    IF i > Len(tasks) THEN <<>>
    ELSE LET t == tasks[i]
             hit == /\ t.status \in {"Open", "Working", "Pending Review"}
                    /\ Like(t.subject, q) \/ Like(t.description, q)
         IN  (IF hit THEN <<i>> ELSE <<>>) \o task_rows_from(i + 1, q)

task_rows(q) == task_rows_from(1, q)

NotifyOutcomes == {"ok", "insert_raises", "get_doc_raises"}

\* create_match_notification: the Comment insert, then get_doc of the
\* matched document and publish_realtime to its owner; every exception is
\* caught and logged.
create_match_notification(item, doctype, name, match_type, o) ==
    LET ref == [reference_doctype |-> doctype, reference_name |-> name]
    IN  [comments |-> IF o = "insert_raises" THEN <<>> ELSE <<ref>>,
         realtime |-> IF o = "ok" THEN <<ref>> ELSE <<>>]

\* The notifications of rows k..Len(refs): one call per selected row.
RECURSIVE notify_all(_, _, _, _, _, _)
notify_all(item, reference_doctype, refs, match_type, out, k) ==
    IF k > Len(refs) THEN [comments |-> <<>>, realtime |-> <<>>]
    ELSE LET one == create_match_notification(item, reference_doctype,
                                              refs[k], match_type, out[k])
             rest == notify_all(item, reference_doctype, refs, match_type,
                                out, k + 1)
         IN  [comments |-> one.comments \o rest.comments,
              realtime |-> one.realtime \o rest.realtime]

\* The value the matching functions return once the query has run (lines
\* 192-203, 242-253).
match_result(refs, n) == refs # <<>>

\* match_with_material_requests(item, search_query).  queryOk: frappe.db.sql
\* returns; out: the outcome of the notification of each selected row.
match_with_material_requests(item, q, queryOk, out) ==
    IF ~queryOk
    THEN [ret |-> FALSE, comments |-> <<>>, realtime |-> <<>>]
    ELSE LET rows == material_request_rows(q)
             refs == [k \in 1..Len(rows) |-> rows[k].parent]
             n == notify_all(item, "Material Request", refs,
                             "material_request", out, 1)
         IN  [ret |-> match_result(refs, n), comments |-> n.comments,
              realtime |-> n.realtime]

\* match_with_tasks(item, search_query).
match_with_tasks(item, q, queryOk, out) ==
    IF ~queryOk
    THEN [ret |-> FALSE, comments |-> <<>>, realtime |-> <<>>]
    ELSE LET refs == task_rows(q)
             n == notify_all(item, "Task", refs, "task", out, 1)
         IN  [ret |-> match_result(refs, n), comments |-> n.comments,
              realtime |-> n.realtime]

InitMatch ==
    /\ \/ /\ mrs \in [MRNames -> MRStates]
          /\ mr_items \in SeqsUpTo(ItemRows, MaxItemRows)
          /\ tasks = <<>>
       \/ /\ mrs = [n \in MRNames |-> [docstatus |-> 0, status |-> "Draft"]]
          /\ mr_items = <<>>
          /\ tasks \in SeqsUpTo(TaskRows, MaxTasks)
    /\ NoMatching

MatchWithMaterialRequests ==
    /\ matchCall.fn = "none"
    /\ \E q \in Queries, queryOk \in BOOLEAN :
       \E out \in [1..Len(material_request_rows(q)) -> NotifyOutcomes] :
          LET r == match_with_material_requests(SampleItem, q, queryOk, out)
          IN  /\ matchCall' = [fn |-> "match_with_material_requests",
                               query |-> q, queryOk |-> queryOk,
                               ret |-> r.ret]
              /\ comments' = r.comments
              /\ realtime' = r.realtime
    /\ UNCHANGED <<siteVars, uploadVars, dbVars, hustleVars>>

MatchWithTasks ==
    /\ matchCall.fn = "none"
    /\ \E q \in Queries, queryOk \in BOOLEAN :
       \E out \in [1..Len(task_rows(q)) -> NotifyOutcomes] :
          LET r == match_with_tasks(SampleItem, q, queryOk, out)
          IN  /\ matchCall' = [fn |-> "match_with_tasks",
                               query |-> q, queryOk |-> queryOk,
                               ret |-> r.ret]
              /\ comments' = r.comments
              /\ realtime' = r.realtime
    /\ UNCHANGED <<siteVars, uploadVars, dbVars, hustleVars>>

NextMatch ==
    \/ MatchWithMaterialRequests
    \/ MatchWithTasks

InitSpecMatch ==
    InitUpload /\ InitMatch /\ NoSearches /\ InitSite

SpecMatch == InitSpecMatch /\ [][NextMatch]_vars

----------------------------------------------------------------------------
(* Matching: properties *)

\* The open documents that match the last call's query.
MatchingDocs ==
    IF matchCall.fn = "match_with_material_requests"
    THEN {n \in MRNames :
            /\ mrs[n].docstatus = 1
            /\ mrs[n].status \in {"Pending", "Partially Ordered"}
            /\ \E k \in 1..Len(mr_items) :
                  /\ mr_items[k].parent = n
                  /\ \/ Like(mr_items[k].item_name, matchCall.query)
                     \/ Like(mr_items[k].description, matchCall.query)
                     \/ Like(mr_items[k].item_code, matchCall.query)}
    ELSE {i \in 1..Len(tasks) :
            /\ tasks[i].status \in {"Open", "Working", "Pending Review"}
            /\ \/ Like(tasks[i].subject, matchCall.query)
               \/ Like(tasks[i].description, matchCall.query)}

CommentsOn(d) ==
    Cardinality({k \in 1..Len(comments) : comments[k].reference_name = d})

\* C10: match_with_material_requests and match_with_tasks return True
\* exactly when a match is found and a notification (Comment) was created;
\* they return False when no open document matches and when the query
\* raises; on a match there is one Comment for each matching document.
C10_MatchResult ==
    matchCall.fn # "none" =>
        /\ matchCall.ret <=>
               (matchCall.queryOk /\ MatchingDocs # {} /\ comments # <<>>)
        /\ matchCall.ret => \A d \in MatchingDocs : CommentsOn(d) = 1

\* What holds of the code: the result is True exactly when the query ran and
\* selected a row, whether or not a Comment could be created.
C10_ResultIsQueryHit ==
    matchCall.fn # "none" =>
        /\ matchCall.ret <=> (matchCall.queryOk /\ MatchingDocs # {})
        /\ ~matchCall.ret => comments = <<>> /\ realtime = <<>>
        /\ \A k \in 1..Len(comments) :
               comments[k].reference_name \in MatchingDocs

----------------------------------------------------------------------------
(* Saved Marketplace Search and the polling routines *)

Never == 0

SearchKinds ==
    [marketplace : {"FINN.no"}, search_type : {"material_request", "task"},
     search_query : {<<"a">>}, active : BOOLEAN, results_found : {0, 1}]

\* SavedMarketplaceSearch.validate: an empty last_checked becomes now.
search_validate(sr, now) ==
    IF sr.last_checked = Never THEN [sr EXCEPT !.last_checked = now] ELSE sr

\* The names of the searches frappe.get_all selects, in table order.
active_searches(S) ==
    SelectSeq([i \in 1..Len(S) |-> i], LAMBDA i : S[i].active)

\* A selection that leaves out the marketplace filter.
searches_of_any_marketplace(S) ==
    SelectSeq([i \in 1..Len(S) |-> i], LAMBDA i : S[i].active)

bruktdel_searches(S) ==
    SelectSeq([i \in 1..Len(S) |-> i],
              LAMBDA i : S[i].marketplace = "bruktdel.no" /\ S[i].active)

\* A fetch that finds one listing.
fetch_one_item(marketplace, search_query, last_checked) == <<SampleItem>>

\* fetch_marketplace_items: the placeholder returns no items.
fetch_marketplace_items(marketplace, search_query, last_checked) == <<>>

\* check_bruktdel_listing: the placeholder returns 0.
check_bruktdel_listing(search_query) == 0

\* A loop that checks every item against Material Requests and Tasks.
RECURSIVE match_items_both(_, _, _)
match_items_both(sr, items, k) ==
    IF k > Len(items)
    THEN [matches_created |-> 0, comments |-> <<>>, realtime |-> <<>>,
          calls |-> <<>>]
    ELSE LET a == match_with_material_requests(
                      items[k], sr.search_query, TRUE,
                      [j \in 1..Len(material_request_rows(sr.search_query))
                          |-> "ok"])
             b == match_with_tasks(
                      items[k], sr.search_query, TRUE,
                      [j \in 1..Len(task_rows(sr.search_query)) |-> "ok"])
             rest == match_items_both(sr, items, k + 1)
         IN  [matches_created |->
                  (IF a.ret THEN 1 ELSE 0) + (IF b.ret THEN 1 ELSE 0)
                  + rest.matches_created,
              comments |-> a.comments \o b.comments \o rest.comments,
              realtime |-> a.realtime \o b.realtime \o rest.realtime,
              calls |-> <<"match_with_material_requests",
                          "match_with_tasks">> \o rest.calls]

\* The loop of process_single_search over the fetched items (lines
\* 104-112), from item k on; calls lists the matching functions it called.
RECURSIVE match_items(_, _, _)
match_items(sr, items, k) ==
    IF k > Len(items)
    THEN [matches_created |-> 0, comments |-> <<>>, realtime |-> <<>>,
          calls |-> <<>>]
    ELSE LET m == IF sr.search_type \in {"material_request",
                                         "purchase_request"}
                  THEN match_with_material_requests(
                           items[k], sr.search_query, TRUE,
                           [j \in 1..Len(material_request_rows(
                                             sr.search_query)) |-> "ok"])
                  ELSE match_with_tasks(
                           items[k], sr.search_query, TRUE,
                           [j \in 1..Len(task_rows(sr.search_query))
                               |-> "ok"])
             rest == match_items(sr, items, k + 1)
         IN  [matches_created |->
                  (IF m.ret THEN 1 ELSE 0) + rest.matches_created,
              comments |-> m.comments \o rest.comments,
              realtime |-> m.realtime \o rest.realtime,
              calls |-> <<IF sr.search_type \in {"material_request",
                                                 "purchase_request"}
                          THEN "match_with_material_requests"
                          ELSE "match_with_tasks">> \o rest.calls]

\* process_single_search after the fetch (lines 100-117): the loop over
\* new_items and the dictionary returned.
process_items(sr, new_items) ==
    LET m == match_items(sr, new_items, 1)
    IN  [items_found |-> Len(new_items),
         matches_created |-> m.matches_created,
         comments |-> m.comments, realtime |-> m.realtime,
         calls |-> m.calls]

\* process_single_search(search).
process_single_search(sr) ==
    LET new_items == fetch_marketplace_items(sr.marketplace,
                                             sr.search_query,
                                             sr.last_checked)
        m == match_items(sr, new_items, 1)
    IN  [items_found |-> Len(new_items),
         matches_created |-> m.matches_created,
         comments |-> m.comments, realtime |-> m.realtime]

SetOutcomes == {"ok", "set_last_checked_raises", "set_results_found_raises"}

\* A loop body that swallows an exception without recording it in errors.
search_body_silent(acc, n, now, o) ==
    LET r == process_single_search(acc.searches[n])
        sr == acc.searches[n]
    IN  [searches |-> [acc.searches EXCEPT ![n] =
                         IF o = "ok"
                         THEN [sr EXCEPT !.last_checked = now,
                                         !.results_found = r.items_found]
                         ELSE sr],
         results |-> [acc.results EXCEPT !.searches_processed = @ + 1],
         attempted |-> Append(acc.attempted, n),
         comments |-> acc.comments \o r.comments,
         realtime |-> acc.realtime \o r.realtime]

\* The loop body of check_marketplace_searches (lines 39-63) for search n.
\* acc: the stored searches, the results dictionary and what has been
\* created so far; o: whether the two frappe.db.set_value calls succeed.
search_body(acc, n, now, o) ==
    LET r == process_single_search(acc.searches[n])
        res == [acc.results EXCEPT
                      !.searches_processed = @ + 1,
                      !.items_found = @ + r.items_found,
                      !.matches_created = @ + r.matches_created]
        sr == acc.searches[n]
    IN  [searches |-> [acc.searches EXCEPT ![n] =
                         IF o = "ok"
                         THEN [sr EXCEPT !.last_checked = now,
                                         !.results_found = r.items_found]
                         ELSE IF o = "set_results_found_raises"
                         THEN [sr EXCEPT !.last_checked = now]
                         ELSE sr],
         results |-> IF o = "ok" THEN res
                     ELSE [res EXCEPT !.errors = Append(@, n)],
         attempted |-> Append(acc.attempted, n),
         comments |-> acc.comments \o r.comments,
         realtime |-> acc.realtime \o r.realtime]

DocOutcomes == {"ok", "get_doc_raises", "save_raises"}

\* The loop body of check_bruktdel_searches (lines 45-68) for search n.
bruktdel_body(acc, n, now, o) ==
    LET results_count == check_bruktdel_listing(acc.searches[n].search_query)
        loaded == [acc.searches[n] EXCEPT !.last_checked = now,
                                          !.results_found = results_count]
        tried == [acc EXCEPT !.attempted = Append(@, n)]
    IN  IF o = "ok"
        THEN [tried EXCEPT !.searches[n] = search_validate(loaded, now)]
        ELSE tried

NoHustleResult ==
    [kind |-> "none", listed |-> FALSE, success |-> FALSE,
     searches_processed |-> 0, items_found |-> 0, matches_created |-> 0,
     errors |-> <<>>]

Request(name, now) ==
    [routine |-> name, pc |-> "done", queue |-> <<>>, now |-> now]

\* The Material Requests and Tasks of the polling specification: one open
\* request and one open task that match the saved queries.
InitDatabase ==
    /\ mrs = [n \in MRNames |-> [docstatus |-> 1, status |-> "Pending"]]
    /\ mr_items = <<[parent |-> "MR1", item_name |-> <<"a">>,
                     description |-> Null, item_code |-> <<"a", "b">>]>>
    /\ tasks = <<[status |-> "Open", subject |-> <<"a">>,
                  description |-> Null]>>

\* The time of the next scheduled task: the scheduler keeps running after
\* the last time the model tells apart.
Tick(t) == IF t < MaxClock THEN t + 1 ELSE t

\* No routine is in its loop: requests are handled one at a time.
NoRoutineRunning == hrun.pc # "loop"

\* A Saved Marketplace Search inserted through the ORM (desk form or
\* get_doc(...).insert()): validate stamps last_checked.
InsertSearch ==
    /\ NoRoutineRunning
    /\ Len(searches) < MaxSearches
    /\ clock < MaxClock
    /\ \E kind \in SearchKinds :
          searches' = Append(searches,
              search_validate(
                  [marketplace |-> kind.marketplace,
                   search_type |-> kind.search_type,
                   search_query |-> kind.search_query,
                   active |-> kind.active,
                   last_checked |-> Never,
                   results_found |-> kind.results_found], clock + 1))
    /\ clock' = clock + 1
    /\ hrun' = Request("insert", clock + 1)
    /\ hresult' = NoHustleResult
    /\ attempted' = <<>>
    /\ comments' = <<>>
    /\ realtime' = <<>>
    /\ UNCHANGED <<siteVars, uploadVars, dbVars, matchCall>>

\* save_bruktdel_search(search_query, asset_code, active).
SaveBruktdelSearch ==
    /\ NoRoutineRunning
    /\ Len(searches) < MaxSearches
    /\ clock < MaxClock
    /\ \E active \in BOOLEAN, ok \in BOOLEAN :
          searches' =
              IF ok
              THEN Append(searches,
                       search_validate(
                           [marketplace |-> "bruktdel.no",
                            search_type |-> "purchase_request",
                            search_query |-> <<"a">>,
                            active |-> active,
                            last_checked |-> Never,
                            results_found |-> 0], clock + 1))
              ELSE searches
    /\ clock' = clock + 1
    /\ hrun' = Request("save_bruktdel_search", clock + 1)
    /\ hresult' = NoHustleResult
    /\ attempted' = <<>>
    /\ comments' = <<>>
    /\ realtime' = <<>>
    /\ UNCHANGED <<siteVars, uploadVars, dbVars, matchCall>>

\* run_marketplace_hustle_routine() -> check_marketplace_searches(), lines
\* 23-36: frappe.get_all (which may raise: the outer handler returns
\* success = False) and the empty results dictionary.
HustleStart ==
    /\ NoRoutineRunning
    /\ clock < MaxClock
    /\ \E listed \in BOOLEAN :
          IF listed
          THEN /\ hrun' = [routine |-> "check_marketplace_searches",
                           pc |-> "loop",
                           queue |-> active_searches(searches),
                           now |-> clock + 1]
               /\ hresult' = [NoHustleResult EXCEPT !.kind = "running",
                                                    !.listed = TRUE]
          ELSE /\ hrun' = Request("check_marketplace_searches", clock + 1)
               /\ hresult' = [NoHustleResult EXCEPT !.kind = "return"]
    /\ clock' = clock + 1
    /\ attempted' = <<>>
    /\ comments' = <<>>
    /\ realtime' = <<>>
    /\ UNCHANGED <<siteVars, uploadVars, dbVars, matchCall, searches>>

\* check_marketplace_searches(), lines 38-63: one iteration.
HustleSearch ==
    /\ hrun.routine = "check_marketplace_searches"
    /\ hrun.pc = "loop"
    /\ hrun.queue # <<>>
    /\ \E o \in SetOutcomes :
          LET b == search_body([searches |-> searches, results |-> hresult,
                                attempted |-> attempted,
                                comments |-> comments,
                                realtime |-> realtime],
                               Head(hrun.queue), hrun.now, o)
          IN  /\ searches' = b.searches
              /\ hresult' = b.results
              /\ attempted' = b.attempted
              /\ comments' = b.comments
              /\ realtime' = b.realtime
    /\ hrun' = [hrun EXCEPT !.queue = Tail(@)]
    /\ UNCHANGED <<siteVars, uploadVars, dbVars, matchCall, clock>>

\* check_marketplace_searches(), lines 65-71: the commit and the result.
HustleFinish ==
    /\ hrun.routine = "check_marketplace_searches"
    /\ hrun.pc = "loop"
    /\ hrun.queue = <<>>
    /\ hrun' = [hrun EXCEPT !.pc = "done"]
    /\ hresult' = [hresult EXCEPT !.kind = "return", !.success = TRUE]
    /\ UNCHANGED <<siteVars, uploadVars, dbVars, matchVars, searches, clock,
                   attempted>>

\* The hourly scheduler event assist.tasks.check_bruktdel_searches, lines
\* 27-42: frappe.get_all and the early return when nothing is selected.
BruktdelStart ==
    /\ NoRoutineRunning
    /\ \E listed \in BOOLEAN :
          hrun' = IF listed /\ bruktdel_searches(searches) # <<>>
                  THEN [routine |-> "check_bruktdel_searches",
                        pc |-> "loop",
                        queue |-> bruktdel_searches(searches),
                        now |-> Tick(clock)]
                  ELSE Request("check_bruktdel_searches", Tick(clock))
    /\ clock' = Tick(clock)
    /\ hresult' = NoHustleResult
    /\ attempted' = <<>>
    /\ comments' = <<>>
    /\ realtime' = <<>>
    /\ UNCHANGED <<siteVars, uploadVars, dbVars, matchCall, searches>>

\* check_bruktdel_searches, lines 44-68: one iteration, or the end of the
\* loop.
BruktdelSearch ==
    /\ hrun.routine = "check_bruktdel_searches"
    /\ hrun.pc = "loop"
    /\ IF hrun.queue = <<>>
       THEN /\ hrun' = [hrun EXCEPT !.pc = "done"]
            /\ UNCHANGED <<searches, attempted>>
       ELSE /\ \E o \in DocOutcomes :
                  LET b == bruktdel_body([searches |-> searches,
                                          attempted |-> attempted],
                                         Head(hrun.queue), hrun.now, o)
                  IN  /\ searches' = b.searches
                      /\ attempted' = b.attempted
            /\ hrun' = [hrun EXCEPT !.queue = Tail(@)]
    /\ UNCHANGED <<siteVars, uploadVars, dbVars, matchVars, clock, hresult>>

NextHustle ==
    \/ InsertSearch
    \/ SaveBruktdelSearch
    \/ HustleStart
    \/ HustleSearch
    \/ HustleFinish
    \/ BruktdelStart
    \/ BruktdelSearch

InitSpecHustle ==
    InitUpload /\ InitDatabase /\ NoMatching /\ NoSearches /\ InitSite

SpecHustle == InitSpecHustle /\ [][NextHustle]_vars

----------------------------------------------------------------------------
(* Properties of the polling routines *)

Names(q) == {q[k] : k \in 1..Len(q)}

HustleRoutine == "check_marketplace_searches"

PollingRoutines == {"check_marketplace_searches", "check_bruktdel_searches"}

HustleReturned ==
    /\ hrun.routine = HustleRoutine
    /\ hrun.pc = "done"
    /\ hresult.listed

\* C7: in check_marketplace_searches an exception while processing one
\* active search is recorded in results.errors and does not stop the run:
\* once the searches were listed, the routine returns success = True after
\* attempting exactly the active searches, every attempted search whose
\* last_checked was not brought to the run time is listed in errors, and no
\* step of the routine changes a search with active = 0.
C7_ErrorsDoNotStop ==
    [][hrun'.routine = HustleRoutine =>
          /\ Len(searches') = Len(searches)
          /\ \A i \in 1..Len(searches) :
                ~searches[i].active => searches'[i] = searches[i]
          /\ HustleReturned' =>
                /\ hresult'.success
                /\ attempted' = active_searches(searches')
                /\ \A n \in Names(attempted') :
                      \/ searches'[n].last_checked = hrun'.now
                      \/ n \in Names(hresult'.errors)]_vars

\* A finished run over an inactive search and two active ones: the update of
\* the first active search raised, the second was updated after it.
C7_Witness ==
    /\ HustleReturned
    /\ hresult.success
    /\ Len(attempted) = 2
    /\ attempted[1] \in Names(hresult.errors)
    /\ searches[attempted[1]].last_checked # hrun.now
    /\ attempted[2] \notin Names(hresult.errors)
    /\ searches[attempted[2]].last_checked = hrun.now
    /\ \E i \in 1..Len(searches) : ~searches[i].active

RECURSIVE items_of(_, _)
items_of(S, names) ==
    IF names = <<>> THEN 0
    ELSE process_single_search(S[Head(names)]).items_found
             + items_of(S, Tail(names))

RECURSIVE matches_of(_, _)
matches_of(S, names) ==
    IF names = <<>> THEN 0
    ELSE process_single_search(S[Head(names)]).matches_created
             + matches_of(S, Tail(names))

\* C8: for every run of check_marketplace_searches that returns success =
\* True, searches_processed + the number of entries in errors = the number
\* of active searches, and items_found / matches_created are the sums over
\* the searches counted.
C8_AccountedOnce ==
    (HustleReturned /\ hresult.success) =>
        /\ hresult.searches_processed + Len(hresult.errors)
               = Len(active_searches(searches))
        /\ hresult.items_found = items_of(searches, attempted)
        /\ hresult.matches_created = matches_of(searches, attempted)

BruktdelRoutine == "check_bruktdel_searches"

Selected(sr) == sr.marketplace = "bruktdel.no" /\ sr.active

\* C11: a step of check_bruktdel_searches changes only records with
\* marketplace 'bruktdel.no' and active = 1, and of those nothing but
\* last_checked and results_found; when its loop ends, every such record has
\* been attempted, whatever happened to the records before it.
C11_OnlyBruktdel ==
    [][hrun'.routine = BruktdelRoutine =>
          /\ Len(searches') = Len(searches)
          /\ \A i \in 1..Len(searches) :
                /\ ~Selected(searches[i]) => searches'[i] = searches[i]
                /\ searches'[i] =
                       [searches[i] EXCEPT
                           !.last_checked = searches'[i].last_checked,
                           !.results_found = searches'[i].results_found]
          /\ (hrun.pc = "loop" /\ hrun'.pc = "done") =>
                attempted' = bruktdel_searches(searches')]_vars

\* A finished run over two active bruktdel.no searches and a record that is
\* not selected: the update of the first one raised, the second one was
\* updated after it.
C11_Witness ==
    /\ hrun.routine = BruktdelRoutine
    /\ hrun.pc = "done"
    /\ Len(attempted) = 2
    /\ searches[attempted[1]].last_checked # hrun.now
    /\ searches[attempted[2]].last_checked = hrun.now
    /\ searches[attempted[2]].results_found = 0
    /\ \E i \in 1..Len(searches) : ~Selected(searches[i])

\* C12: a search created by save_bruktdel_search has no last_checked and
\* results_found = 0, and a last_checked is first given to a search by a
\* step of one of the checking routines.
C12_UncheckedUntilFirstCheck ==
    [][/\ (hrun'.routine = "save_bruktdel_search"
              /\ Len(searches') = Len(searches) + 1) =>
                /\ searches'[Len(searches')].last_checked = Never
                /\ searches'[Len(searches')].results_found = 0
       /\ \A i \in 1..Len(searches) :
             (searches[i].last_checked = Never
                 /\ searches'[i].last_checked # Never) =>
                   hrun'.routine \in PollingRoutines]_vars

\* C25: in every iteration of check_marketplace_searches, a search that is
\* added to results.errors keeps the last_checked and results_found it had,
\* and a search that is counted in searches_processed has last_checked set
\* to the run time and results_found set to its items_found.
C25_AllOrNothing ==
    [][(hrun.routine = HustleRoutine /\ hrun.pc = "loop"
           /\ Len(attempted') = Len(attempted) + 1) =>
          LET n == attempted'[Len(attempted')]
          IN  /\ Len(hresult'.errors) > Len(hresult.errors) =>
                    /\ searches'[n].last_checked = searches[n].last_checked
                    /\ searches'[n].results_found
                           = searches[n].results_found
              /\ hresult'.searches_processed > hresult.searches_processed =>
                    /\ searches'[n].last_checked = hrun.now
                    /\ searches'[n].results_found
                           = process_single_search(searches[n]).items_found
      ]_vars

----------------------------------------------------------------------------
(* The scheduler (hooks.py) *)

ScheduledTasks == Names(hooks.hourly) \cup Names(hooks.daily)

\* The scheduler's hourly tick: the registered hourly task starts.
SchedulerHourly ==
    /\ "assist.tasks.check_bruktdel_searches"
           \in Names(hooks.hourly)
    /\ BruktdelStart

\* The scheduler's daily tick: daily_marketplace_summary reads the active
\* searches checked in the last 24 hours and logs a summary; it writes
\* nothing.
SchedulerDaily ==
    /\ "assist.tasks.daily_marketplace_summary"
           \in Names(hooks.daily)
    /\ NoRoutineRunning
    /\ clock' = Tick(clock)
    /\ hrun' = Request("daily_marketplace_summary", Tick(clock))
    /\ hresult' = NoHustleResult
    /\ attempted' = <<>>
    /\ comments' = <<>>
    /\ realtime' = <<>>
    /\ UNCHANGED <<siteVars, uploadVars, dbVars, matchCall, searches>>

\* The site with its scheduler running and users who save searches but
\* trigger nothing by hand.
NextScheduler ==
    \/ InsertSearch
    \/ SaveBruktdelSearch
    \/ SchedulerHourly
    \/ BruktdelSearch
    \/ SchedulerDaily

InitSpecScheduler ==
    InitUpload /\ InitDatabase /\ NoMatching /\ NoSearches /\ InitSite

SpecScheduler ==
    /\ InitSpecScheduler
    /\ [][NextScheduler]_vars
    /\ WF_vars(SchedulerHourly)
    /\ WF_vars(BruktdelSearch)
    /\ WF_vars(SchedulerDaily)

\* C13: scheduler_events registers check_bruktdel_searches,
\* daily_marketplace_summary and send_garden_reminders.
C13_ThreeTasksRegistered ==
    {"assist.tasks.check_bruktdel_searches",
     "assist.tasks.daily_marketplace_summary",
     "assist.tasks.send_garden_reminders"} \subseteq ScheduledTasks

\* With the scheduler alone running, check_marketplace_searches never runs.
SchedulerNeverHustles == hrun.routine # HustleRoutine

\* C14: with the scheduler running and no manual trigger, every active
\* saved search eventually has its last_checked updated by
\* check_marketplace_searches.
C14_EventuallyPolled ==
    \A i \in 1..MaxSearches :
        (i <= Len(searches) /\ searches[i].active)
            ~> (/\ hrun.routine = HustleRoutine
                /\ i \in Names(attempted)
                /\ searches[i].last_checked = hrun.now)

----------------------------------------------------------------------------
(* Marketplace Listing *)

\* Text is a sequence of characters; the empty text stands for None and ''.
Empty == <<>>

RECURSIVE join(_, _)
join(parts, sep) ==
    IF parts = <<>> THEN <<>>
    ELSE IF Len(parts) = 1 THEN parts[1]
    ELSE parts[1] \o sep \o join(Tail(parts), sep)

\* urllib.parse.urlencode quotes a value with quote_plus.
quote_char(c) ==
    IF c = " " THEN "+"
    ELSE IF c = "," THEN "%2C"
    ELSE IF c = "|" THEN "%7C"
    ELSE c

quote_plus(text) == [k \in 1..Len(text) |-> quote_char(text[k])]

\* urlencode(params): the key=value pairs in insertion order.
urlencode(params) ==
    [k \in 1..Len(params) |->
        [key |-> params[k].key, value |-> quote_plus(params[k].value)]]

MapsDir == "https://www.google.com/maps/dir/?"

NoLink == [base |-> "None", query |-> <<>>]

\* The structured address parts that are set, in the order of the code.
destination_parts(d) ==
    (IF d.pickup_address # Empty THEN <<d.pickup_address>> ELSE <<>>)
    \o (IF d.pickup_city # Empty THEN <<d.pickup_city>> ELSE <<>>)
    \o (IF d.pickup_postal_code # Empty
        THEN <<d.pickup_postal_code>> ELSE <<>>)

\* MarketplaceListing._generate_gmaps_route_link.
generate_gmaps_route_link(d) ==
    IF d.pickup_location = Empty /\ d.pickup_address = Empty
    THEN [d EXCEPT !.gmaps_route_link = NoLink]
    ELSE LET parts == destination_parts(d)
             destination == IF parts # <<>>
                            THEN join(parts, <<",", " ">>)
                            ELSE d.pickup_location
         IN  [d EXCEPT !.gmaps_route_link =
                 [base |-> MapsDir,
                  query |-> urlencode(
                      <<[key |-> "api", value |-> <<"1">>],
                        [key |-> "destination", value |-> destination]>>)]]

\* A link generator that ignores the structured address.
generate_location_link(d) ==
    IF d.pickup_location = Empty
    THEN [d EXCEPT !.gmaps_route_link = NoLink]
    ELSE [d EXCEPT !.gmaps_route_link =
             [base |-> MapsDir,
              query |-> urlencode(
                  <<[key |-> "api", value |-> <<"1">>],
                    [key |-> "destination",
                     value |-> d.pickup_location]>>)]]

\* A validate that checks nothing.
listing_never_throws(d) == FALSE

\* The two frappe.throw conditions of MarketplaceListing.validate.
listing_throws(d) ==
    \/ d.listing_type = "Sale" /\ d.item_code = Empty
    \/ d.listing_type = "Rental" /\ d.asset_code = Empty

\* MarketplaceListing.validate when it does not throw; now is the text
\* frappe.utils.now() returns.
listing_validate_at(d, now) ==
    LET c == IF d.currency = Empty THEN [d EXCEPT !.currency = <<"NOK">>] ELSE d
        q == IF c.status = "Posted" /\ c.posted_on = Empty
             THEN [c EXCEPT !.posted_on = now] ELSE c
    IN  generate_gmaps_route_link(q)

\* validate where the time of the call is not told apart.
listing_validate(d) == listing_validate_at(d, <<"now">>)

\* A before_submit that stamps posted_on whether or not it is set.
listing_before_submit_stamps(d, now) ==
    [d EXCEPT !.status = "Posted", !.posted_on = now]

\* MarketplaceListing.before_submit.
listing_before_submit(d, now) ==
    [d EXCEPT !.status = "Posted",
              !.posted_on = IF d.posted_on = Empty THEN now ELSE d.posted_on]

ListingKinds ==
    {[listing_type |-> "Sale", item_code |-> <<"I">>, asset_code |-> Empty],
     [listing_type |-> "Sale", item_code |-> Empty, asset_code |-> <<"A">>],
     [listing_type |-> "Rental", item_code |-> Empty, asset_code |-> <<"A">>],
     [listing_type |-> "Rental", item_code |-> Empty, asset_code |-> Empty]}

Places ==
    {[pickup_location |-> Empty, pickup_address |-> Empty,
      pickup_city |-> Empty, pickup_postal_code |-> Empty],
     [pickup_location |-> <<"L", ",", " ", "N">>, pickup_address |-> Empty,
      pickup_city |-> Empty, pickup_postal_code |-> Empty],
     [pickup_location |-> Empty, pickup_address |-> <<"S", " ", "1">>,
      pickup_city |-> <<"O">>, pickup_postal_code |-> <<"0">>],
     [pickup_location |-> Empty, pickup_address |-> Empty,
      pickup_city |-> <<"O">>, pickup_postal_code |-> Empty],
     [pickup_location |-> <<"L", ",", " ", "N">>, pickup_address |-> Empty,
      pickup_city |-> <<"O">>, pickup_postal_code |-> Empty]}

new_listing(kind, place) ==
    [listing_type |-> kind.listing_type, item_code |-> kind.item_code,
     asset_code |-> kind.asset_code,
     pickup_location |-> place.pickup_location,
     pickup_address |-> place.pickup_address,
     pickup_city |-> place.pickup_city,
     pickup_postal_code |-> place.pickup_postal_code,
     currency |-> Empty, status |-> "Draft", posted_on |-> Empty,
     gmaps_route_link |-> NoLink, docstatus |-> 0]

\* A loop that stops at the first listing it has to skip.
RECURSIVE route_stops_until_skip(_, _, _)
route_stops_until_skip(L, listing_ids, k) ==
    IF k > Len(listing_ids) THEN <<>>
    ELSE IF listing_ids[k] \notin 1..Len(L) THEN <<>>
    ELSE IF ~(destination_parts(L[listing_ids[k]]) # <<>>
             \/ L[listing_ids[k]].pickup_location # Empty) THEN <<>>
    ELSE <<[name |-> listing_ids[k],
            location |-> IF destination_parts(L[listing_ids[k]]) # <<>>
                         THEN join(destination_parts(L[listing_ids[k]]),
                                   <<",", " ">>)
                         ELSE L[listing_ids[k]].pickup_location]>>
         \o route_stops_until_skip(L, listing_ids, k + 1)

\* The loop of generate_route_for_multiple_listings (lines 93-123) from
\* position k on: the name and destination of every listing that loads and
\* has a location. frappe.get_doc raises for a name that is not stored.
RECURSIVE route_stops(_, _, _)
route_stops(L, listing_ids, k) ==
    IF k > Len(listing_ids) THEN <<>>
    ELSE LET rest == route_stops(L, listing_ids, k + 1)
         IN  IF listing_ids[k] \notin 1..Len(L) THEN rest
             ELSE LET listing == L[listing_ids[k]]
                      parts == destination_parts(listing)
                  IN  IF parts # <<>>
                      THEN <<[name |-> listing_ids[k],
                              location |-> join(parts, <<",", " ">>)]>>
                           \o rest
                      ELSE IF listing.pickup_location # Empty
                      THEN <<[name |-> listing_ids[k],
                              location |-> listing.pickup_location]>>
                           \o rest
                      ELSE rest

NoRoute ==
    [success |-> FALSE, error |-> "", route_link |-> NoLink,
     listings |-> <<>>, total_stops |-> 0]

\* generate_route_for_multiple_listings(listing_ids, start_location).
generate_route_for_multiple_listings(L, listing_ids, start_location) ==
    IF listing_ids = <<>>
    THEN [NoRoute EXCEPT !.error = "No listings provided"]
    ELSE LET stops == route_stops(L, listing_ids, 1)
             waypoints == [k \in 1..Len(stops) |-> stops[k].location]
             n == Len(waypoints)
         IN  IF waypoints = <<>>
             THEN [NoRoute EXCEPT !.error = "No valid locations found"]
             ELSE LET params ==
                          <<[key |-> "api", value |-> <<"1">>]>>
                          \o (IF start_location # Empty
                              THEN <<[key |-> "origin",
                                      value |-> start_location]>>
                              ELSE <<>>)
                          \o <<[key |-> "destination",
                                value |-> waypoints[n]]>>
                          \o (IF n > 1
                              THEN <<[key |-> "waypoints",
                                      value |-> join(SubSeq(waypoints, 1,
                                                            n - 1),
                                                     <<"|">>)]>>
                              ELSE <<>>)
                  IN  [success |-> TRUE, error |-> "",
                       route_link |-> [base |-> MapsDir,
                                       query |-> urlencode(params)],
                       listings |-> [k \in 1..n |-> stops[k].name],
                       total_stops |-> n]

\* A Marketplace Listing inserted through the ORM: validate, then the
\* database insert, which may raise.
InsertListing ==
    /\ Len(listings) < MaxListings
    /\ \E kind \in ListingKinds, place \in Places, dbOk \in BOOLEAN :
          LET d == new_listing(kind, place)
              stored == ~listing_throws(d) /\ dbOk
          IN  /\ listings' = IF stored
                             THEN Append(listings, listing_validate(d))
                             ELSE listings
              /\ lop' = [op |-> "insert", thrown |-> listing_throws(d),
                         ok |-> stored]
    /\ UNCHANGED <<hooks, programs, pop, garden, restVars, uploadVars, dbVars,
                   matchVars, hustleVars>>

\* A stored listing edited and saved (the desk form, or listing.save() of
\* auto_photoshoot_for_listing).
SaveListing ==
    /\ \E i \in 1..Len(listings), kind \in ListingKinds, place \in Places,
          dbOk \in BOOLEAN :
          LET d == [listings[i] EXCEPT
                       !.listing_type = kind.listing_type,
                       !.item_code = kind.item_code,
                       !.asset_code = kind.asset_code,
                       !.pickup_location = place.pickup_location,
                       !.pickup_address = place.pickup_address,
                       !.pickup_city = place.pickup_city,
                       !.pickup_postal_code = place.pickup_postal_code]
              stored == ~listing_throws(d) /\ dbOk
          IN  /\ listings' = IF stored
                             THEN [listings EXCEPT
                                      ![i] = listing_validate(d)]
                             ELSE listings
              /\ lop' = [op |-> "save", thrown |-> listing_throws(d),
                         ok |-> stored]
    /\ UNCHANGED <<hooks, programs, pop, garden, restVars, uploadVars, dbVars,
                   matchVars, hustleVars>>

\* post_to_marketplace (mcp_server/server.py): the two early returns, the
\* get_doc of the Item or Asset, then the insert of the new listing.
PostToMarketplace ==
    /\ Len(listings) < MaxListings
    /\ \E listing_type \in {"Sale", "Rental"},
          item_code \in {Empty, <<"I">>}, asset_code \in {Empty, <<"A">>},
          getOk \in BOOLEAN, dbOk \in BOOLEAN :
          LET missing ==
                  \/ listing_type = "Sale" /\ item_code = Empty
                  \/ listing_type = "Rental" /\ asset_code = Empty
              d == new_listing(
                       [listing_type |-> listing_type,
                        item_code |-> IF listing_type = "Sale"
                                      THEN item_code ELSE Empty,
                        asset_code |-> IF listing_type = "Sale"
                                       THEN Empty ELSE asset_code],
                       [pickup_location |-> Empty, pickup_address |-> Empty,
                        pickup_city |-> Empty,
                        pickup_postal_code |-> Empty])
              created == ~missing /\ getOk /\ ~listing_throws(d) /\ dbOk
          IN  /\ listings' = IF created
                             THEN Append(listings, listing_validate(d))
                             ELSE listings
              /\ lop' = [op |-> "post_to_marketplace",
                         listing_type |-> listing_type,
                         item_code |-> item_code,
                         asset_code |-> asset_code,
                         success |-> created]
    /\ UNCHANGED <<hooks, programs, pop, garden, restVars, uploadVars, dbVars,
                   matchVars, hustleVars>>

\* generate_route_for_multiple_listings called with a list of names, 0
\* being the name of no stored listing, and an optional start location.
GenerateRoute ==
    /\ \E listing_ids \in SeqsUpTo(0..Len(listings), MaxStops),
          start_location \in {Empty, <<"H">>} :
          lop' = [op |-> "generate_route",
                  listing_ids |-> listing_ids,
                  start_location |-> start_location,
                  ret |-> generate_route_for_multiple_listings(
                              listings, listing_ids, start_location)]
    /\ UNCHANGED <<hooks, listings, programs, pop, garden, restVars, uploadVars,
                   dbVars, matchVars, hustleVars>>

NextListing ==
    \/ InsertListing
    \/ SaveListing
    \/ PostToMarketplace

InitSpecListing ==
    InitUpload /\ NoDatabase /\ NoMatching /\ NoSearches /\ InitSite

SpecListing == InitSpecListing /\ [][NextListing]_vars

\* The listings a site can hold: Sale listings as validate stored them.
StoredListings ==
    {listing_validate(
         new_listing([listing_type |-> "Sale", item_code |-> <<"I">>,
                      asset_code |-> Empty], place)) : place \in Places}

\* generate_route_for_multiple_listings writes nothing, so one call on every
\* possible table of listings reaches all of its results.
RouteOnce == lop.op = "none" /\ GenerateRoute

InitSpecRoute ==
    /\ InitUpload /\ NoDatabase /\ NoMatching /\ NoSearches /\ InitRest
    /\ hooks = scheduler_events
    /\ listings \in SeqsUpTo(StoredListings, MaxListings)
    /\ lop = [op |-> "none"]
    /\ programs = <<>>
    /\ pop = [op |-> "none"]
    /\ garden = [called |-> FALSE]

SpecRoute == InitSpecRoute /\ [][RouteOnce]_vars

----------------------------------------------------------------------------
(* Marketplace Listing: properties *)

Sequence3(a, b, c) == <<a, b, c>>

\* The structured address parts of a listing that are set.
StructuredParts(d) ==
    SelectSeq(Sequence3(d.pickup_address, d.pickup_city,
                        d.pickup_postal_code),
              LAMBDA t : t # Empty)

HasLocation(d) == StructuredParts(d) # <<>> \/ d.pickup_location # Empty

Destination(d) ==
    IF StructuredParts(d) # <<>>
    THEN join(StructuredParts(d), <<",", " ">>)
    ELSE d.pickup_location

Param(link, key) ==
    {link.query[k].value :
        k \in {j \in 1..Len(link.query) : link.query[j].key = key}}

C16_LinkWhenLocated ==
    \A i \in 1..Len(listings) :
        LET d == listings[i]
        IN  IF HasLocation(d)
            THEN /\ d.gmaps_route_link.base = MapsDir
                 /\ Param(d.gmaps_route_link, "destination")
                        = {quote_plus(Destination(d))}
            ELSE d.gmaps_route_link = NoLink

\* The requested names that are stored listings with location data.
Located(L, listing_ids) ==
    SelectSeq(listing_ids,
              LAMBDA id : id \in 1..Len(L) /\ HasLocation(L[id]))

\* C17: generate_route_for_multiple_listings returns success = False for an
\* empty list and for a list without located listing; otherwise total_stops
\* is the number of requested listings that load and have location data,
\* the last of them is the destination, the earlier ones are the waypoints
\* in input order, and the origin is in the link iff start_location is
\* given.
C17_RouteStops ==
    lop.op = "generate_route" =>
        LET located == Located(listings, lop.listing_ids)
            n == Len(located)
            link == lop.ret.route_link
        IN  IF n = 0
            THEN ~lop.ret.success
            ELSE /\ lop.ret.success
                 /\ lop.ret.total_stops = n
                 /\ lop.ret.listings = located
                 /\ link.base = MapsDir
                 /\ Param(link, "destination")
                        = {quote_plus(Destination(listings[located[n]]))}
                 /\ Param(link, "waypoints") =
                        IF n = 1 THEN {}
                        ELSE {quote_plus(
                                 join([k \in 1..(n - 1) |->
                                          Destination(listings[located[k]])],
                                      <<"|">>))}
                 /\ Param(link, "origin") =
                        IF lop.start_location = Empty THEN {}
                        ELSE {quote_plus(lop.start_location)}

\* A route over three requested names, the first of no stored listing: two
\* stops, one of them a waypoint, from a given start location.
C17_Witness ==
    /\ lop.op = "generate_route"
    /\ Len(lop.listing_ids) = 3
    /\ lop.listing_ids[1] = 0
    /\ lop.ret.success
    /\ lop.ret.total_stops = 2
    /\ lop.ret.listings[1] # lop.ret.listings[2]
    /\ lop.start_location # Empty
    /\ Param(lop.ret.route_link, "waypoints") # {}

----------------------------------------------------------------------------
(* Norwegian Support Program *)

ProviderCodeLen == 3
NameCodeLen == 10

\* text[:n]
take(text, n) == SubSeq(text, 1, IF Len(text) < n THEN Len(text) ELSE n)

\* str.upper and str.isalnum on the characters of the model.
upper_char(c) ==
    IF c = "a" THEN "A" ELSE IF c = "b" THEN "B" ELSE IF c = "c" THEN "C"
    ELSE c

upper(text) == [k \in 1..Len(text) |-> upper_char(text[k])]

isalnum(c) == c \in {"a", "b", "c", "A", "B", "C"}

\* NorwegianSupportProgram.generate_program_code.
generate_program_code(d) ==
    LET provider_code ==
            IF d.provider # Empty
            THEN upper(take(d.provider, ProviderCodeLen))
            ELSE <<"X", "X", "X">>
        name_code ==
            upper(SelectSeq(take(d.program_name, NameCodeLen), isalnum))
    IN  provider_code \o <<"-">> \o name_code

\* NorwegianSupportProgram.before_save.
program_before_save(d) ==
    IF d.program_code = Empty
    THEN [d EXCEPT !.program_code = generate_program_code(d)]
    ELSE d

\* A validate that checks the amounts only.
program_throws_on_amounts(d) ==
    /\ d.support_amount_min # 0
    /\ d.support_amount_max # 0
    /\ d.support_amount_min > d.support_amount_max

\* The two frappe.throw conditions of NorwegianSupportProgram.validate.
program_throws(d) ==
    \/ ~(\/ d.eligible_for_private_person
         \/ d.eligible_for_company
         \/ d.eligible_for_housing
         \/ d.eligible_for_farm)
    \/ /\ d.support_amount_min # 0
       /\ d.support_amount_max # 0
       /\ d.support_amount_min > d.support_amount_max

Long == <<"c", "c", "c", "c", "c", "c", "c", "c", "c", "c">>

UserCodes == {<<"U">>}

program(name, provider, code, flags, lo, hi) ==
    [program_name |-> name, provider |-> provider, program_code |-> code,
     eligible_for_private_person |-> flags[1],
     eligible_for_company |-> flags[2],
     eligible_for_housing |-> flags[3],
     eligible_for_farm |-> flags[4],
     support_amount_min |-> lo, support_amount_max |-> hi]

Flags(a, b, c, d) == <<a, b, c, d>>

\* The documents users submit.
ProgramInputs ==
    {program(<<"a", "b">>, <<"a", "b", "c", "a">>, Empty,
             Flags(FALSE, FALSE, FALSE, FALSE), 0, 0),
     program(<<"a", "b">>, <<"a", "b", "c", "a">>, Empty,
             Flags(TRUE, FALSE, FALSE, FALSE), 0, 0),
     program(<<"a", " ", "b">>, <<"a", "b", "c", "a">>, Empty,
             Flags(FALSE, FALSE, TRUE, TRUE), 1, 2),
     program(<<"a", "b">>, Empty, Empty,
             Flags(FALSE, TRUE, FALSE, FALSE), 0, 2),
     program(<<"b">>, <<"a">>, <<"U">>,
             Flags(TRUE, FALSE, FALSE, FALSE), 0, 0),
     program(<<"b", "-">>, <<"a">>, Empty,
             Flags(TRUE, TRUE, TRUE, TRUE), 2, 1),
     program(<<"b", "-">>, <<"a">>, Empty,
             Flags(TRUE, TRUE, TRUE, TRUE), 2, 0),
     program(Long \o <<"a">>, <<"a", "b", "c", "a">>, Empty,
             Flags(FALSE, FALSE, FALSE, TRUE), 0, 0),
     program(Long \o <<"b">>, <<"a", "b", "c", "a">>, Empty,
             Flags(FALSE, FALSE, FALSE, TRUE), 0, 0)}

\* A Norwegian Support Program inserted: validate, before_save, then the
\* database insert, which may raise.
InsertProgram ==
    /\ Len(programs) < MaxPrograms
    /\ \E d \in ProgramInputs, dbOk \in BOOLEAN :
          LET stored == ~program_throws(d) /\ dbOk
          IN  /\ programs' = IF stored
                             THEN Append(programs, program_before_save(d))
                             ELSE programs
              /\ pop' = [op |-> "insert", given |-> d.program_code,
                         flags |-> Flags(d.eligible_for_private_person,
                                         d.eligible_for_company,
                                         d.eligible_for_housing,
                                         d.eligible_for_farm),
                         thrown |-> program_throws(d), ok |-> stored]
    /\ UNCHANGED <<hooks, listings, lop, garden, restVars, uploadVars, dbVars,
                   matchVars, hustleVars>>

FlagEdits ==
    {Flags(FALSE, FALSE, FALSE, FALSE), Flags(FALSE, TRUE, FALSE, FALSE),
     Flags(TRUE, FALSE, TRUE, TRUE)}

\* A stored program whose eligibility is edited and saved.
SaveProgram ==
    /\ \E i \in 1..Len(programs), flags \in FlagEdits, dbOk \in BOOLEAN :
          LET d == [programs[i] EXCEPT
                       !.eligible_for_private_person = flags[1],
                       !.eligible_for_company = flags[2],
                       !.eligible_for_housing = flags[3],
                       !.eligible_for_farm = flags[4]]
              stored == ~program_throws(d) /\ dbOk
          IN  /\ programs' = IF stored
                             THEN [programs EXCEPT
                                      ![i] = program_before_save(d)]
                             ELSE programs
              /\ pop' = [op |-> "save", given |-> d.program_code,
                         flags |-> flags,
                         thrown |-> program_throws(d), ok |-> stored]
    /\ UNCHANGED <<hooks, listings, lop, garden, restVars, uploadVars, dbVars,
                   matchVars, hustleVars>>

NextProgram ==
    \/ InsertProgram
    \/ SaveProgram

InitSpecProgram ==
    InitUpload /\ NoDatabase /\ NoMatching /\ NoSearches /\ InitSite

SpecProgram == InitSpecProgram /\ [][NextProgram]_vars

----------------------------------------------------------------------------
(* Norwegian Support Program: properties *)

NoFlags == Flags(FALSE, FALSE, FALSE, FALSE)

\* C18: every stored Norwegian Support Program has at least one of the four
\* eligibility flags set, and an insert or save of a program with none set
\* raises and stores nothing.
C18_SomeEligibility ==
    [][/\ \A i \in 1..Len(programs') :
             \/ programs'[i].eligible_for_private_person
             \/ programs'[i].eligible_for_company
             \/ programs'[i].eligible_for_housing
             \/ programs'[i].eligible_for_farm
       /\ (pop'.op \in {"insert", "save"} /\ pop'.flags = NoFlags) =>
             /\ pop'.thrown
             /\ ~pop'.ok
             /\ programs' = programs]_vars

\* A stored program had all its flags cleared and the save was rejected.
C18_Witness ==
    /\ pop.op = "save"
    /\ pop.flags = NoFlags
    /\ pop.thrown
    /\ programs # <<>>

\* C19: every stored program has a non-empty program_code, a program_code
\* supplied by the user is stored as supplied, and two stored programs with
\* different names never have the same generated code.
C19_UniqueCodes ==
    /\ \A i \in 1..Len(programs) : programs[i].program_code # Empty
    /\ (pop.op \in {"insert", "save"} /\ pop.ok /\ pop.given # Empty) =>
          \E i \in 1..Len(programs) : programs[i].program_code = pop.given
    /\ \A i, j \in 1..Len(programs) :
          (/\ programs[i].program_name # programs[j].program_name
           /\ programs[i].program_code \notin UserCodes
           /\ programs[j].program_code \notin UserCodes) =>
                programs[i].program_code # programs[j].program_code

----------------------------------------------------------------------------
(* Garden Planting Schedule: get_planting_reminders *)

\* Dates are day numbers; NoDate is an empty date field, Today is getdate().
NoDate == 0
Today == 5

planting_item(crop, status, planting_date, expected_harvest_date) ==
    [crop |-> crop, status |-> status, planting_date |-> planting_date,
     expected_harvest_date |-> expected_harvest_date]

\* The rows of planting_items the schedules are made of.
GardenItems ==
    {planting_item("carrot", "Planned", Today + 1, Today + 3),
     planting_item("kale", "Planned", Today, NoDate),
     planting_item("leek", "Planned", Today + 3, NoDate),
     planting_item("bean", "Planned", NoDate, Today + 1),
     planting_item("pea", "Seeded/Planted", Today + 1, Today + 2),
     planting_item("beet", "Growing", Today - 2, Today + 1),
     planting_item("dill", "Growing", Today - 3, Today - 1),
     planting_item("corn", "Harvested", Today + 1, Today + 1)}

\* Reminders that also count the day itself.
RECURSIVE reminders_from_today(_, _)
reminders_from_today(schedule, k) ==
    IF k > Len(schedule.planting_items) THEN <<>>
    ELSE LET item == schedule.planting_items[k]
             p == item.planting_date - Today
             h == item.expected_harvest_date - Today
         IN  (IF /\ item.planting_date # NoDate
                 /\ item.status = "Planned"
                 /\ 0 <= p
                 /\ p <= schedule.reminder_days_before_planting
              THEN <<[type |-> "planting", crop |-> item.crop,
                      date |-> item.planting_date, days_until |-> p]>>
              ELSE <<>>)
             \o (IF /\ item.expected_harvest_date # NoDate
                    /\ item.status \in {"Seeded/Planted", "Growing"}
                    /\ 0 <= h
                    /\ h <= schedule.reminder_days_before_harvest
                 THEN <<[type |-> "harvest", crop |-> item.crop,
                         date |-> item.expected_harvest_date,
                         days_until |-> h]>>
                 ELSE <<>>)
             \o reminders_from_today(schedule, k + 1)

\* The loop of get_planting_reminders (lines 61-82) from row k on.
RECURSIVE reminders_from(_, _)
reminders_from(schedule, k) ==
    IF k > Len(schedule.planting_items) THEN <<>>
    ELSE LET item == schedule.planting_items[k]
             p == item.planting_date - Today
             h == item.expected_harvest_date - Today
         IN  (IF /\ item.planting_date # NoDate
                 /\ item.status = "Planned"
                 /\ 0 < p
                 /\ p <= schedule.reminder_days_before_planting
              THEN <<[type |-> "planting", crop |-> item.crop,
                      date |-> item.planting_date, days_until |-> p]>>
              ELSE <<>>)
             \o (IF /\ item.expected_harvest_date # NoDate
                    /\ item.status \in {"Seeded/Planted", "Growing"}
                    /\ 0 < h
                    /\ h <= schedule.reminder_days_before_harvest
                 THEN <<[type |-> "harvest", crop |-> item.crop,
                         date |-> item.expected_harvest_date,
                         days_until |-> h]>>
                 ELSE <<>>)
             \o reminders_from(schedule, k + 1)

\* GardenPlantingSchedule.get_planting_reminders.
get_planting_reminders(schedule) ==
    IF ~schedule.enable_email_reminders THEN <<>>
    ELSE reminders_from(schedule, 1)

Schedules ==
    [enable_email_reminders : BOOLEAN,
     reminder_days_before_planting : 0..MaxRemind,
     reminder_days_before_harvest : 0..MaxRemind,
     planting_items : SeqsUpTo(GardenItems, MaxItems)]

\* schedule.get_planting_reminders() as send_garden_reminders calls it.
GetPlantingReminders ==
    /\ ~garden.called
    /\ garden' = [garden EXCEPT
                     !.called = TRUE,
                     !.ret = get_planting_reminders(garden.schedule)]
    /\ UNCHANGED <<hooks, listings, lop, programs, pop, restVars, uploadVars, dbVars,
                   matchVars, hustleVars>>

InitSpecGarden ==
    /\ InitUpload /\ NoDatabase /\ NoMatching /\ NoSearches /\ InitRest
    /\ hooks = scheduler_events
    /\ listings = <<>>
    /\ lop = [op |-> "none"]
    /\ programs = <<>>
    /\ pop = [op |-> "none"]
    /\ \E schedule \in Schedules :
          garden = [called |-> FALSE, schedule |-> schedule, ret |-> <<>>]

SpecGarden == InitSpecGarden /\ [][GetPlantingReminders]_vars

----------------------------------------------------------------------------
(* Garden Planting Schedule: properties *)

PlantingDue(schedule, item) ==
    /\ item.status = "Planned"
    /\ item.planting_date # NoDate
    /\ item.planting_date - Today \in 1..schedule.reminder_days_before_planting

HarvestDue(schedule, item) ==
    /\ item.status \in {"Seeded/Planted", "Growing"}
    /\ item.expected_harvest_date # NoDate
    /\ item.expected_harvest_date - Today
           \in 1..schedule.reminder_days_before_harvest

RemindersFor(ret, type, item) ==
    {k \in 1..Len(ret) : ret[k].type = type /\ ret[k].crop = item.crop}

\* C20: get_planting_reminders returns nothing when email reminders are
\* disabled; otherwise it returns one planting reminder for each Planned row
\* whose planting_date is 1 to reminder_days_before_planting days ahead, one
\* harvest reminder for each Seeded/Planted or Growing row whose
\* expected_harvest_date is 1 to reminder_days_before_harvest days ahead, no
\* other reminder, and never both kinds for one row.
C20_Reminders ==
    garden.called =>
        LET schedule == garden.schedule
            items == schedule.planting_items
            ret == garden.ret
            rows(item) == {k \in 1..Len(items) : items[k] = item}
        IN  IF ~schedule.enable_email_reminders
            THEN ret = <<>>
            ELSE /\ \A k \in 1..Len(ret) : ret[k].type \in {"planting", "harvest"}
                 /\ \A item \in GardenItems :
                       /\ Cardinality(RemindersFor(ret, "planting", item))
                              = IF PlantingDue(schedule, item)
                                THEN Cardinality(rows(item)) ELSE 0
                       /\ Cardinality(RemindersFor(ret, "harvest", item))
                              = IF HarvestDue(schedule, item)
                                THEN Cardinality(rows(item)) ELSE 0
                       /\ \/ RemindersFor(ret, "planting", item) = {}
                          \/ RemindersFor(ret, "harvest", item) = {}

\* A schedule with a row due for planting on the last day of its window and
\* a row due for harvest: two reminders, one of each kind.
C20_Witness ==
    /\ garden.called
    /\ garden.schedule.enable_email_reminders
    /\ Len(garden.ret) = 2
    /\ garden.ret[1].type = "planting"
    /\ garden.ret[2].type = "harvest"
    /\ garden.ret[1].days_until = garden.schedule.reminder_days_before_planting

\* C24: no stored Norwegian Support Program has support_amount_min
\* greater than support_amount_max: validate raises for every pair of
\* amounts with min > max.
C24_MinNotAboveMax ==
    \A i \in 1..Len(programs) :
       programs[i].support_amount_min <= programs[i].support_amount_max

----------------------------------------------------------------------------
(* Assist Tool Draft (assist_tool_draft.py) and the tool functions the     *)
(* MCP server makes of the drafts (mcp_server/server.py).  The name of a   *)
(* draft is its index in tools.                                            *)

MaxTools == 1
MaxUsage == 1

\* An action_type of "" stands for any value that is none of the four the
\* code knows.
Categories == {"Marketplace", "Garden"}

\* The drafts users store: one of every action type, in either category.
ToolDrafts ==
    {<<"Create Document", "Marketplace">>, <<"Update Document", "Garden">>,
     <<"API Call", "Marketplace">>, <<"Custom Code", "Garden">>,
     <<"", "Marketplace">>}

\* A draft as the form stores it; usage_count starts at 0.
tool_draft(action_type, category, enabled) ==
    [enabled |-> enabled, action_type |-> action_type,
     category |-> category, usage_count |-> 0]

\* What an action method meets: "ok" it runs through, "missing" the field it
\* needs (target_doctype, the context's name, api_endpoint, custom_code) is
\* empty, "raise" a call inside its try block raises.
ActionOutcomes == {"ok", "missing", "raise"}

\* A result dictionary; did names what the call did outside the draft.
ToolResult(success, message, did) ==
    [success |-> success, message |-> message, did |-> did]

\* _create_document: the document exists only when insert went through.
create_document(o) ==
    IF o = "missing"
    THEN ToolResult(FALSE, "Target DocType not specified", "none")
    ELSE IF o = "raise"
         THEN ToolResult(FALSE, "str(e)", "none")
         ELSE ToolResult(TRUE, "Created", "create")

\* _update_document: the document is changed only when save went through.
update_document(o) ==
    IF o = "missing"
    THEN ToolResult(FALSE, "Document name not provided", "none")
    ELSE IF o = "raise"
         THEN ToolResult(FALSE, "str(e)", "none")
         ELSE ToolResult(TRUE, "Updated", "update")

\* _api_call: raise_for_status raises after the request has been sent.
api_call(o) ==
    IF o = "missing"
    THEN ToolResult(FALSE, "API endpoint not specified", "none")
    ELSE IF o = "raise"
         THEN ToolResult(FALSE, "str(e)", "api")
         ELSE ToolResult(TRUE, "API call successful", "api")

\* _execute_custom_code: code that raises has run up to the raise.
execute_custom_code(o) ==
    IF o = "missing"
    THEN ToolResult(FALSE, "No custom code specified", "none")
    ELSE IF o = "raise"
         THEN ToolResult(FALSE, "str(e)", "code")
         ELSE ToolResult(TRUE, "Custom code executed successfully", "code")

\* The dispatch on action_type at the end of execute_tool.
run_action(action_type, o) ==
    CASE action_type = "Create Document" -> create_document(o)
      [] action_type = "Update Document" -> update_document(o)
      [] action_type = "API Call" -> api_call(o)
      [] action_type = "Custom Code" -> execute_custom_code(o)
      [] OTHER -> ToolResult(FALSE, "Unknown action type", "none")

ToolDisabled == ToolResult(FALSE, "Tool is disabled", "none")

\* What a call leaves when it raises instead of returning.
ToolRaised == ToolResult(FALSE, "raised", "none")

\* An execute_tool that does not look at enabled.
execute_tool_unguarded(t, saveOk, o) ==
    IF ~saveOk
    THEN [raised |-> TRUE, usage_count |-> t.usage_count,
          ret |-> ToolRaised]
    ELSE [raised |-> FALSE, usage_count |-> t.usage_count + 1,
          ret |-> run_action(t.action_type, o)]

\* AssistToolDraft.execute_tool on the loaded draft t: the stored
\* usage_count after the call and what the call returned.
execute_tool(t, saveOk, o) ==
    IF ~t.enabled
    THEN [raised |-> FALSE, usage_count |-> t.usage_count,
          ret |-> ToolDisabled]
    ELSE IF ~saveOk
         THEN [raised |-> TRUE, usage_count |-> t.usage_count,
               ret |-> ToolRaised]
         ELSE [raised |-> FALSE, usage_count |-> t.usage_count + 1,
               ret |-> run_action(t.action_type, o)]

\* frappe.get_all("Assist Tool Draft", filters = {"enabled": 1}).
enabled_tools(T) == {n \in DOMAIN T : T[n].enabled}

\* The filters of get_available_tools: category is added when it is given.
available_tools(T, category) ==
    {n \in enabled_tools(T) : category # "" => T[n].category = category}

\* frappe.get_doc("Assist Tool Draft", name) followed by execute_tool, as
\* the whitelisted execute_tool and a registered tool function both do.
CallTool(op, n) ==
    \E getOk \in BOOLEAN, saveOk \in BOOLEAN, o \in ActionOutcomes :
       IF ~(getOk /\ n \in DOMAIN tools)
       THEN /\ top' = [op |-> op, name |-> n, raised |-> TRUE,
                       ret |-> ToolRaised]
            /\ tools' = tools
       ELSE /\ tools[n].enabled => tools[n].usage_count < MaxUsage
            /\ LET r == execute_tool(tools[n], saveOk, o)
               IN  /\ top' = [op |-> op, name |-> n, raised |-> r.raised,
                              ret |-> r.ret]
                   /\ tools' = [tools EXCEPT ![n] =
                                   [enabled |-> tools[n].enabled,
                                    action_type |-> tools[n].action_type,
                                    category |-> tools[n].category,
                                    usage_count |-> r.usage_count]]

\* A user stores a new draft.
InsertTool ==
    /\ Len(tools) < MaxTools
    /\ \E draft \in ToolDrafts, enabled \in BOOLEAN :
          tools' = Append(tools, tool_draft(draft[1], draft[2], enabled))
    /\ top' = [op |-> "insert"]
    /\ UNCHANGED <<mcp, callVars, formVars, uploadVars, dbVars,
                   matchVars, hustleVars>>

\* A user ticks or unticks enabled on the form and saves.
SaveTool ==
    /\ \E n \in DOMAIN tools :
          tools' = [tools EXCEPT ![n] =
                       [enabled |-> ~tools[n].enabled,
                        action_type |-> tools[n].action_type,
                        category |-> tools[n].category,
                        usage_count |-> tools[n].usage_count]]
    /\ top' = [op |-> "save"]
    /\ UNCHANGED <<mcp, callVars, formVars, uploadVars, dbVars,
                   matchVars, hustleVars>>

\* load_user_drafted_tools, called once by run_server: a tool function is
\* registered for every draft get_all returns; when get_all raises nothing
\* is registered.
LoadUserDraftedTools ==
    /\ ~mcp.loaded
    /\ \E listed \in BOOLEAN :
          mcp' = [loaded |-> TRUE,
                  registered |-> IF listed THEN enabled_tools(tools)
                                 ELSE {}]
    /\ top' = [op |-> "load_user_drafted_tools"]
    /\ UNCHANGED <<tools, callVars, formVars, uploadVars, dbVars,
                   matchVars, hustleVars>>

\* A client calls a tool function the MCP server has registered.
ToolFunction ==
    /\ \E n \in mcp.registered : CallTool("tool_function", n)
    /\ UNCHANGED <<mcp, callVars, formVars, uploadVars, dbVars,
                   matchVars, hustleVars>>

\* The whitelisted execute_tool(tool_name, context); the name may be one
\* that no draft has.
ExecuteTool ==
    /\ \E n \in 1..MaxTools : CallTool("execute_tool", n)
    /\ UNCHANGED <<mcp, callVars, formVars, uploadVars, dbVars,
                   matchVars, hustleVars>>

\* The whitelisted get_available_tools(category); the rows are kept as the
\* set of their names.
GetAvailableTools ==
    /\ \E category \in Categories \cup {""}, listed \in BOOLEAN :
          top' = [op |-> "get_available_tools", category |-> category,
                  raised |-> ~listed,
                  ret |-> IF listed THEN available_tools(tools, category)
                          ELSE {}]
    /\ UNCHANGED <<tools, mcp, callVars, formVars, uploadVars, dbVars,
                   matchVars, hustleVars>>

NextTool ==
    \/ InsertTool
    \/ SaveTool
    \/ LoadUserDraftedTools
    \/ ToolFunction
    \/ ExecuteTool
    \/ GetAvailableTools

InitSpecTool ==
    InitUpload /\ NoDatabase /\ NoMatching /\ NoSearches /\ InitSite

SpecTool == InitSpecTool /\ [][NextTool]_vars

----------------------------------------------------------------------------
(* Assist Tool Draft: properties *)

ToolCalls == {"execute_tool", "tool_function"}

\* C21: a call of execute_tool on a disabled draft returns success = False
\* with 'Tool is disabled', does nothing outside the draft and leaves every
\* stored draft, usage_count included, as it was, also when the call comes
\* through a tool function registered while the draft was enabled;
\* get_available_tools returns, and load_user_drafted_tools registers, only
\* enabled drafts.
C21_DisabledNeverExecutes ==
    /\ [][\A n \in DOMAIN tools :
             (top'.op \in ToolCalls /\ top'.name = n /\ ~tools[n].enabled)
             => /\ tools' = tools
                /\ top'.ret.did = "none"
                /\ ~top'.ret.success
                /\ ~top'.raised => top'.ret.message = "Tool is disabled"]_vars
    /\ [](top.op = "get_available_tools"
             => \A n \in top.ret : tools[n].enabled)
    /\ [](top.op = "load_user_drafted_tools"
             => \A n \in mcp.registered : tools[n].enabled)

\* A tool function is called after its draft was disabled.
C21_Witness ==
    /\ top.op = "tool_function"
    /\ ~top.raised
    /\ ~tools[top.name].enabled
    /\ top.ret = ToolDisabled
    /\ tools[top.name].usage_count = 0

----------------------------------------------------------------------------
(* process_single_search on its own (marketplace_hustle.py lines 82-117).  *)
(* fetch_marketplace_items is a placeholder that finds nothing, so the     *)
(* loop over the fetched items is exercised with the list a fetch that     *)
(* finds listings hands to it.                                             *)

MaxFetched == 2

\* search.get("search_type"): "" stands for a search without the key.
SearchTypes == {"material_request", "purchase_request", "task", "other", ""}

\* The search dictionaries check_marketplace_searches passes on.
SingleSearches ==
    [marketplace : {"FINN.no"}, search_type : SearchTypes,
     search_query : {<<"a">>, <<"b">>}, last_checked : {Never}]

\* Material Requests that are open or already ordered, with one item row
\* each, and up to MaxTasks open or completed tasks.
InitSearchDatabase ==
    /\ mrs \in [MRNames -> {[docstatus |-> 1, status |-> "Pending"],
                            [docstatus |-> 1, status |-> "Ordered"]}]
    /\ mr_items = <<[parent |-> "MR1", item_name |-> <<"a">>,
                     description |-> Null, item_code |-> <<"a", "b">>],
                    [parent |-> "MR2", item_name |-> <<"a">>,
                     description |-> Null, item_code |-> <<"a", "b">>]>>
    /\ tasks \in SeqsUpTo({[status |-> "Open", subject |-> <<"a">>,
                            description |-> Null],
                           [status |-> "Completed", subject |-> <<"a">>,
                            description |-> Null]}, MaxTasks)

\* One call of process_single_search.
ProcessSingleSearch ==
    /\ ~single.called
    /\ LET r == process_items(single.search, single.new_items)
       IN  /\ single' = [called |-> TRUE, search |-> single.search,
                         new_items |-> single.new_items,
                         ret |-> [items_found |-> r.items_found,
                                  matches_created |-> r.matches_created],
                         calls |-> r.calls]
           /\ comments' = r.comments
           /\ realtime' = r.realtime
    /\ UNCHANGED <<toolVars, succession, planting, formVars, uploadVars,
                   dbVars, matchCall, hustleVars>>

InitSpecSearch ==
    /\ InitUpload /\ InitSearchDatabase /\ NoMatching /\ NoSearches
    /\ hooks = scheduler_events
    /\ listings = <<>>
    /\ lop = [op |-> "none"]
    /\ programs = <<>>
    /\ pop = [op |-> "none"]
    /\ garden = [called |-> FALSE]
    /\ tools = <<>>
    /\ mcp = [loaded |-> FALSE, registered |-> {}]
    /\ top = [op |-> "none"]
    /\ succession = [called |-> FALSE]
    /\ planting = [stored |-> FALSE, op |-> "none"]
    /\ \E sr \in SingleSearches :
       \E new_items \in SeqsUpTo({SampleItem}, MaxFetched) :
          single = [called |-> FALSE, search |-> sr, new_items |-> new_items]

SpecSearch == InitSpecSearch /\ [][ProcessSingleSearch]_vars

----------------------------------------------------------------------------
(* process_single_search: properties *)

\* The matching function and the document type a search_type selects.
MatcherOf(search_type) ==
    IF search_type \in {"material_request", "purchase_request"}
    THEN [fn |-> "match_with_material_requests", doctype |-> "Material Request"]
    ELSE [fn |-> "match_with_tasks", doctype |-> "Task"]

\* C22: process_single_search calls exactly one matching function for each
\* fetched item, match_with_material_requests when search_type is
\* 'material_request' or 'purchase_request' and match_with_tasks for any
\* other or missing search_type; every notification it creates is on a
\* document of that kind; and matches_created never exceeds items_found.
C22_OneCheckPerItem ==
    single.called =>
        /\ single.ret.items_found = Len(single.new_items)
        /\ Len(single.calls) = Len(single.new_items)
        /\ \A k \in 1..Len(single.calls) :
              single.calls[k] = MatcherOf(single.search.search_type).fn
        /\ \A k \in 1..Len(comments) :
              comments[k].reference_doctype
                  = MatcherOf(single.search.search_type).doctype
        /\ single.ret.matches_created <= single.ret.items_found

\* A purchase_request search with two fetched items, both matched, while
\* an open task matches the query too.
C22_Witness ==
    /\ single.called
    /\ single.search.search_type = "purchase_request"
    /\ Len(single.new_items) = 2
    /\ single.ret.matches_created = 2
    /\ task_rows(single.search.search_query) # <<>>

----------------------------------------------------------------------------
(* Marketplace Listing: status and posted_on over insert, save and submit  *)
(* (marketplace_listing.py lines 10-26 and 59-63).  A timestamp is the     *)
(* one-element text <<t>> of the time t it was taken; <<0>> is a time a    *)
(* user typed into the form.                                               *)

MaxPosted == 2

\* The values a user gives status on the form.
ListingStatuses == {"Draft", "Posted"}

\* What a user does to posted_on on the form.
PostedOnEdits == {"keep", "clear", "type"}

edit_posted_on(posted_on, edit) ==
    CASE edit = "keep" -> posted_on
      [] edit = "clear" -> Empty
      [] edit = "type" -> <<0>>

\* A Sale listing without pickup data as the form sends it to insert.
posting(item_code, status, posted_on) ==
    [listing_type |-> "Sale", item_code |-> item_code, asset_code |-> Empty,
     pickup_location |-> Empty, pickup_address |-> Empty,
     pickup_city |-> Empty, pickup_postal_code |-> Empty,
     currency |-> Empty, status |-> status, posted_on |-> posted_on,
     gmaps_route_link |-> NoLink, docstatus |-> 0]

\* doc.insert(): validate, then the row is written.
InsertPosting ==
    /\ Len(listings) < MaxPosted
    /\ clock < MaxClock
    /\ clock' = clock + 1
    /\ \E item_code \in {Empty, <<"I">>}, status \in ListingStatuses,
          edit \in {"clear", "type"}, dbOk \in BOOLEAN :
          LET d == posting(item_code, status, edit_posted_on(Empty, edit))
              stored == ~listing_throws(d) /\ dbOk
          IN  /\ listings' = IF stored
                             THEN Append(listings,
                                         listing_validate_at(d, <<clock'>>))
                             ELSE listings
              /\ lop' = [op |-> "insert", name |-> Len(listings) + 1,
                         edit |-> edit, ok |-> stored]
    /\ UNCHANGED <<hooks, programs, pop, garden, restVars, uploadVars, dbVars,
                   matchVars, searches, hrun, hresult, attempted>>

\* doc.save() of a draft whose status, posted_on or item_code were edited.
SavePosting ==
    /\ clock < MaxClock
    /\ clock' = clock + 1
    /\ \E i \in 1..Len(listings), item_code \in {Empty, <<"I">>},
          status \in ListingStatuses, edit \in PostedOnEdits,
          dbOk \in BOOLEAN :
          /\ listings[i].docstatus = 0
          /\ LET d == [listings[i] EXCEPT
                          !.item_code = item_code,
                          !.status = status,
                          !.posted_on = edit_posted_on(@, edit)]
                 stored == ~listing_throws(d) /\ dbOk
             IN  /\ listings' = IF stored
                                THEN [listings EXCEPT ![i] =
                                         listing_validate_at(d, <<clock'>>)]
                                ELSE listings
                 /\ lop' = [op |-> "save", name |-> i, edit |-> edit,
                            ok |-> stored]
    /\ UNCHANGED <<hooks, programs, pop, garden, restVars, uploadVars, dbVars,
                   matchVars, searches, hrun, hresult, attempted>>

\* doc.submit() of a draft: validate, then before_submit, then the row is
\* written with docstatus 1.
SubmitPosting ==
    /\ clock < MaxClock
    /\ clock' = clock + 1
    /\ \E i \in 1..Len(listings), dbOk \in BOOLEAN :
          /\ listings[i].docstatus = 0
          /\ LET d == listings[i]
                 stored == ~listing_throws(d) /\ dbOk
                 v == listing_validate_at(d, <<clock'>>)
                 b == listing_before_submit(v, <<clock'>>)
             IN  /\ listings' = IF stored
                                THEN [listings EXCEPT ![i] =
                                         [b EXCEPT !.docstatus = 1]]
                                ELSE listings
                 /\ lop' = [op |-> "submit", name |-> i, edit |-> "keep",
                            ok |-> stored]
    /\ UNCHANGED <<hooks, programs, pop, garden, restVars, uploadVars, dbVars,
                   matchVars, searches, hrun, hresult, attempted>>

NextSubmit ==
    \/ InsertPosting
    \/ SavePosting
    \/ SubmitPosting

InitSpecSubmit ==
    InitUpload /\ NoDatabase /\ NoMatching /\ NoSearches /\ InitSite

SpecSubmit == InitSpecSubmit /\ [][NextSubmit]_vars

----------------------------------------------------------------------------
(* Marketplace Listing status and posted_on: properties *)

\* C23: every stored listing with status 'Posted' has posted_on set; a
\* submit that goes through leaves the listing 'Posted'; a listing that is
\* written as 'Posted' by an insert, save or submit that found posted_on
\* empty gets the time of that call; and a posted_on that was set is left
\* as it was by every save that did not edit the field and by every submit.
C23_PostedOn ==
    /\ [](\A i \in 1..Len(listings) :
             listings[i].status = "Posted" => listings[i].posted_on # Empty)
    /\ [][lop'.ok =>
            /\ lop'.op = "submit" => listings'[lop'.name].status = "Posted"
            /\ listings'[lop'.name].status = "Posted" =>
                  listings'[lop'.name].posted_on
                      = IF lop'.op = "insert"
                        THEN (IF lop'.edit = "type" THEN <<0>> ELSE <<clock'>>)
                        ELSE IF edit_posted_on(listings[lop'.name].posted_on,
                                               lop'.edit) = Empty
                             THEN <<clock'>>
                             ELSE edit_posted_on(
                                      listings[lop'.name].posted_on, lop'.edit)
            /\ (lop'.op # "insert" /\ lop'.edit = "keep"
                   /\ listings[lop'.name].posted_on # Empty) =>
                  listings'[lop'.name].posted_on
                      = listings[lop'.name].posted_on]_vars

\* A listing posted by a save is submitted later and keeps the time of the
\* save.
C23_Witness ==
    /\ lop.op = "submit" /\ lop.ok
    /\ listings[lop.name].docstatus = 1
    /\ listings[lop.name].status = "Posted"
    /\ listings[lop.name].posted_on # Empty
    /\ listings[lop.name].posted_on # <<0>>
    /\ listings[lop.name].posted_on # <<clock>>

----------------------------------------------------------------------------
(* calculate_succession_planting (api.py lines 1663-1722).  A date is its  *)
(* day number in the calendar datetime.date covers, FirstDay..MaxDay;      *)
(* add_days raises OverflowError when the sum leaves the calendar.  An Int *)
(* field that is empty holds 0.                                            *)

FirstDay == 0
MaxDay == 4
MaxInterval == 2

InCalendar(day) == FirstDay <= day /\ day <= MaxDay

\* The crops stored: Crop.validate puts no condition on the two fields, so
\* the interval may be negative.
Crops ==
    [succession_planting_interval_days : (0 - 1)..MaxInterval,
     days_to_maturity : {0, 1}]

SuccessionFailed == [success |-> FALSE, planting_schedule |-> <<>>,
                     total_plantings |-> 0]

\* The while loop (lines 1692-1703) from current_date on: the plantings it
\* appends, or raised when one of its add_days calls raises.
RECURSIVE succession_loop(_, _, _, _)
succession_loop(crop, current_date, planting_number, end) ==
    IF ~(current_date <= end)
    THEN [raised |-> FALSE, schedule |-> <<>>]
    ELSE IF \/ /\ crop.days_to_maturity # 0
               /\ ~InCalendar(current_date + crop.days_to_maturity)
            \/ ~InCalendar(current_date
                           + crop.succession_planting_interval_days)
         THEN [raised |-> TRUE, schedule |-> <<>>]
         ELSE LET rest == succession_loop(
                              crop,
                              current_date
                                  + crop.succession_planting_interval_days,
                              planting_number + 1, end)
              IN  [raised |-> rest.raised,
                   schedule |-> <<[planting_number |-> planting_number,
                                   planting_date |-> current_date]>>
                                \o rest.schedule]

\* calculate_succession_planting(crop_name, start_date, end_date); getOk:
\* frappe.get_doc finds the crop.
calculate_succession_planting(crop, getOk, start, end) ==
    IF ~getOk THEN SuccessionFailed
    ELSE IF crop.succession_planting_interval_days = 0
    THEN SuccessionFailed
    ELSE LET r == succession_loop(crop, start, 1, end)
         IN  IF r.raised THEN SuccessionFailed
             ELSE [success |-> TRUE, planting_schedule |-> r.schedule,
                   total_plantings |-> Len(r.schedule)]

CalculateSuccessionPlanting ==
    /\ ~succession.called
    /\ \E getOk \in BOOLEAN :
          succession' = [called |-> TRUE, crop |-> succession.crop,
                         found |-> getOk,
                         start |-> succession.start, end |-> succession.end,
                         ret |-> calculate_succession_planting(
                                     succession.crop, getOk,
                                     succession.start, succession.end)]
    /\ UNCHANGED <<toolVars, single, planting, formVars, uploadVars, dbVars,
                   matchVars, hustleVars>>

InitSpecSuccession ==
    /\ InitUpload /\ NoDatabase /\ NoMatching /\ NoSearches
    /\ hooks = scheduler_events
    /\ listings = <<>>
    /\ lop = [op |-> "none"]
    /\ programs = <<>>
    /\ pop = [op |-> "none"]
    /\ garden = [called |-> FALSE]
    /\ tools = <<>>
    /\ mcp = [loaded |-> FALSE, registered |-> {}]
    /\ top = [op |-> "none"]
    /\ single = [called |-> FALSE]
    /\ planting = [stored |-> FALSE, op |-> "none"]
    /\ \E crop \in Crops, start \in FirstDay..MaxDay, end \in FirstDay..MaxDay :
          succession = [called |-> FALSE, crop |-> crop,
                        start |-> start, end |-> end]

SpecSuccession == InitSpecSuccession /\ [][CalculateSuccessionPlanting]_vars

----------------------------------------------------------------------------
(* calculate_succession_planting: properties *)

\* C26: for every stored crop and every pair of dates the call returns
\* success = False when the crop's interval is missing or 0, and otherwise
\* success = True with plantings numbered 1..k, planting i at
\* start + (i-1)*interval, every planting_date on or before end, and
\* total_plantings = k (0 when start is after end).
C26_Succession ==
    (succession.called /\ succession.found) =>
        LET interval == succession.crop.succession_planting_interval_days
            ret == succession.ret
            plan == ret.planting_schedule
        IN  IF interval = 0
            THEN ~ret.success
            ELSE /\ ret.success
                 /\ ret.total_plantings = Len(plan)
                 /\ \A i \in 1..Len(plan) :
                       /\ plan[i].planting_number = i
                       /\ plan[i].planting_date
                              = succession.start + (i - 1) * interval
                       /\ plan[i].planting_date <= succession.end
                 /\ succession.start > succession.end => Len(plan) = 0

\* The part of C26 that holds: a positive interval whose plantings and
\* harvests stay inside the calendar.
SuccessionWithinCalendar ==
    (/\ succession.called /\ succession.found
     /\ succession.crop.succession_planting_interval_days > 0
     /\ succession.end + MaxInterval + 1 <= MaxDay)
        => /\ succession.ret.success
           /\ \A i \in 1..Len(succession.ret.planting_schedule) :
                 succession.ret.planting_schedule[i].planting_date
                     = succession.start + (i - 1)
                           * succession.crop.succession_planting_interval_days
           /\ (succession.start <= succession.end)
                 => succession.ret.total_plantings >= 1

----------------------------------------------------------------------------
(* Garden Planting Schedule: validate and calculate_harvest_dates          *)
(* (garden_planting_schedule.py lines 13-24).  Dates are day numbers,      *)
(* NoDate an empty date field, "" an empty crop link.                      *)

\* days_to_maturity of the stored Crop documents; 0 is an empty field.
CropMaturity == [carrot |-> 2, radish |-> 1, herb |-> 0]

CropNames == {"carrot", "radish", "herb"}

PlantingDates == {NoDate, Today, Today + 1}

\* The rows a user enters: the harvest date left empty or typed in.
RowInputs ==
    {planting_item(crop, "Planned", planting_date, expected_harvest_date) :
        crop \in CropNames \cup {""}, planting_date \in PlantingDates,
        expected_harvest_date \in {NoDate, Today + 4}}

\* The body of the loop of calculate_harvest_dates for one row.
harvest_date_of(item) ==
    IF item.crop # "" /\ item.planting_date # NoDate
       /\ item.expected_harvest_date = NoDate
       /\ CropMaturity[item.crop] # 0
    THEN planting_item(item.crop, item.status, item.planting_date,
                       item.planting_date + CropMaturity[item.crop])
    ELSE item

\* calculate_harvest_dates over the rows of the document.
calculate_harvest_dates(items) ==
    [k \in 1..Len(items) |-> harvest_date_of(items[k])]

\* frappe.get_doc("Crop", item.crop) is called by validate: for a row with
\* crop and planting_date and no harvest date, and in
\* check_companion_planting for every row with a crop.
loads_crop(items) == \E k \in 1..Len(items) : items[k].crop # ""

\* GardenPlantingSchedule.validate on the rows sent; cropOk: every get_doc
\* of a Crop finds it.  The rows are written unless validate raises.
save_schedule(items, cropOk, op) ==
    IF loads_crop(items) /\ ~cropOk
    THEN [planting EXCEPT !.op = op]
    ELSE [stored |-> TRUE, op |-> op,
          planting_items |-> calculate_harvest_dates(items)]

\* A new schedule is inserted.
InsertSchedule ==
    /\ ~planting.stored
    /\ \E items \in SeqsUpTo(RowInputs, MaxItems), cropOk \in BOOLEAN :
          planting' = save_schedule(items, cropOk, "insert")
    /\ UNCHANGED <<toolVars, single, succession, formVars, uploadVars,
                   dbVars, matchVars, hustleVars>>

\* The fields of a row a user changes before saving.
RowEdits ==
    {"planting_date", "crop", "clear_harvest_date", "nothing"}

edit_row(item, edit, crop, planting_date) ==
    CASE edit = "planting_date" ->
             planting_item(item.crop, item.status, planting_date,
                           item.expected_harvest_date)
      [] edit = "crop" ->
             planting_item(crop, item.status, item.planting_date,
                           item.expected_harvest_date)
      [] edit = "clear_harvest_date" ->
             planting_item(item.crop, item.status, item.planting_date,
                           NoDate)
      [] OTHER -> item

\* The stored schedule is saved after one of its rows was edited.
SaveSchedule ==
    /\ planting.stored
    /\ \E k \in 1..Len(planting.planting_items), edit \in RowEdits,
          crop \in CropNames, planting_date \in PlantingDates,
          cropOk \in BOOLEAN :
          planting' = save_schedule(
                          [planting.planting_items EXCEPT
                              ![k] = edit_row(@, edit, crop, planting_date)],
                          cropOk, edit)
    /\ UNCHANGED <<toolVars, single, succession, formVars, uploadVars,
                   dbVars, matchVars, hustleVars>>

NextSchedule ==
    \/ InsertSchedule
    \/ SaveSchedule

InitSpecSchedule ==
    InitUpload /\ NoDatabase /\ NoMatching /\ NoSearches /\ InitSite

SpecSchedule == InitSpecSchedule /\ [][NextSchedule]_vars

----------------------------------------------------------------------------
(* Garden Planting Schedule harvest dates: properties *)

\* C27: after every insert and save, every stored planting item with a
\* planting_date and a crop that has days_to_maturity has
\* expected_harvest_date = planting_date + days_to_maturity.
C27_HarvestDates ==
    planting.stored =>
        \A k \in 1..Len(planting.planting_items) :
           LET item == planting.planting_items[k]
           IN  (item.crop # "" /\ item.planting_date # NoDate
                   /\ CropMaturity[item.crop] # 0)
               => item.expected_harvest_date
                      = item.planting_date + CropMaturity[item.crop]

\* The part of C27 that holds: a row inserted with an empty harvest date
\* gets planting_date + days_to_maturity.
HarvestDateFilledWhenEmpty ==
    [][(planting'.stored /\ planting'.op = "insert")
          => \A k \in 1..Len(planting'.planting_items) :
                LET item == planting'.planting_items[k]
                IN  (item.crop # "" /\ item.planting_date # NoDate
                        /\ CropMaturity[item.crop] # 0
                        /\ item.expected_harvest_date # Today + 4)
                    => item.expected_harvest_date
                           = item.planting_date + CropMaturity[item.crop]
      ]_vars

====
